---------------------------- MODULE Spec2Model ----------------------------
(***************************************************************************)
(* WTForacle Go engine: the C interface (wtf_init, wtf_free, wtf_reset,    *)
(* wtf_generate, wtf_encode, wtf_decode_token, the setters and getters),   *)
(* the generation loop and the tokenizer it consumes.                      *)
(*                                                                         *)
(* Strings are sequences of bytes (0..255); token ids are 0-based as in    *)
(* the Go code, so Vocab[id + 1] is the Go expression t.Vocab[id].         *)
(* Floats that only take part in comparisons are scaled integers           *)
(* (repPenalty 1.15 is 115, freqPenalty 0.0 is 0, tempFloor 0.9 is 90).    *)
(***************************************************************************)
EXTENDS Integers, Sequences, FiniteSets, TLC

VARIABLES
    gModel,      \* *LlamaModel: Nil or [SeqLen, VocabSize, EmbedDim]
    gTokenizer,  \* *Tokenizer: Nil or a tokenizer record
    gGGUF,       \* *GGUFFile: Nil or the parsed file
    gSampleBuf,  \* *SampleBuffers: Nil or [vocab], the size it was made for
    gMu,         \* sync.Mutex: <<>> or <<t>> for the thread holding it
    gRNG,        \* *rand.Rand: the state of the generator
    tempFloor, repPenalty, repWindow, freqPenalty,  \* sampler settings
    pc,          \* per caller thread: the position inside the exported call
    arg,         \* per caller thread: the arguments of the call in progress
    seen,        \* per caller thread: the pointer an unlocked nil check read
    ret,         \* per caller thread: what the last finished call returned, and for
                 \* wtf_generate how its loop ended (stop, sampled, iters, maxTokens)
    gor,         \* per caller thread: state of the goroutine the call started
    ch,          \* per caller thread: the buffered result channel (cap 1)
    gen,         \* per caller thread: locals of the generation goroutine, with the
                 \* history of its loop (sampled, iters, stop, prefill, iterOut, cfg0, cfg)
    fwd,         \* positions of gModel.Forward calls since the last Reset
    live         \* ghost: a wtf_init has succeeded since start / last wtf_free

vars == <<gModel, gTokenizer, gGGUF, gSampleBuf, gMu, gRNG, tempFloor, repPenalty,
          repWindow, freqPenalty, pc, arg, seen, ret, gor, ch, gen, fwd, live>>

\* a nil pointer; a non-nil pointer is the record it points to
Nil == [nil |-> TRUE]
\* gMu is <<>> when unlocked and <<t>> when thread t holds it
Unlocked == <<>>

-----------------------------------------------------------------------------
(* Bytes and strings *)

SPACE == 32
BANG == 33
DOT == 46
QUESTION == 63
NEWLINE == 10
LT == 60
GT == 62
ZERO == 48
LOWERX == 120

\* U+2581 LOWER ONE EIGHTH BLOCK, the SentencePiece space marker
SPMark == <<226, 150, 129>>

RECURSIVE Concat(_)
Concat(ss) == IF ss = <<>> THEN <<>> ELSE Head(ss) \o Concat(Tail(ss))

Last(s) == s[Len(s)]

Min(a, b) == IF a < b THEN a ELSE b

Prefix(s, n) == SubSeq(s, 1, Min(n, Len(s)))

Drop(s, n) == SubSeq(s, n + 1, Len(s))

StartsWith(s, p) == Len(p) <= Len(s) /\ SubSeq(s, 1, Len(p)) = p

\* strings.Index: the first 0-based position of p in s, or -1
Index(s, p) ==
    LET hits == {i \in 0..(Len(s) - Len(p)) : SubSeq(s, i + 1, i + Len(p)) = p}
    IN IF hits = {} THEN -1 ELSE CHOOSE i \in hits : \A j \in hits : i <= j

\* strings.ReplaceAll(s, old, new) for a non-empty old
RECURSIVE ReplaceAll(_, _, _)
ReplaceAll(s, old, new) ==
    IF s = <<>> THEN <<>>
    ELSE IF StartsWith(s, old) THEN new \o ReplaceAll(Drop(s, Len(old)), old, new)
    ELSE <<Head(s)>> \o ReplaceAll(Tail(s), old, new)

HexDigit(n) == IF n < 10 THEN 48 + n ELSE 55 + n

\* fmt.Sprintf("<0x%02X>", b)
ByteName(b) == <<LT, ZERO, LOWERX, HexDigit(b \div 16), HexDigit(b % 16), GT>>

HexVal(c) ==
    IF c \in 48..57 THEN c - 48
    ELSE IF c \in 65..70 THEN c - 55
    ELSE IF c \in 97..102 THEN c - 87
    ELSE -1

\* len(piece) == 6 && piece[0] == '<' && piece[1] == '0' && piece[2] == 'x' && piece[5] == '>'
IsByteName(piece) ==
    /\ Len(piece) = 6
    /\ piece[1] = LT /\ piece[2] = ZERO /\ piece[3] = LOWERX /\ piece[6] = GT

\* fmt.Sscanf(piece, "<0x%02X>", &b): b keeps 0 when no hex digit follows "<0x",
\* and the digits read so far when the scan stops early
ScanByte(piece) ==
    LET h1 == HexVal(piece[4])
        h2 == HexVal(piece[5])
    IN IF h1 < 0 THEN 0 ELSE IF h2 < 0 THEN h1 ELSE 16 * h1 + h2

IsCont(b) == b \in 128..191

\* utf8.DecodeRuneInString: the byte length of the first rune of a non-empty
\* string; 0 stands for an invalid encoding (RuneError, consumed width 1)
RuneSize(s) ==
    LET b == s[1]
        n == Len(s)
    IN IF b < 128 THEN 1
       ELSE IF b \in 194..223 /\ n >= 2 /\ IsCont(s[2]) THEN 2
       ELSE IF b \in 224..239 /\ n >= 3 /\ IsCont(s[2]) /\ IsCont(s[3])
               /\ (b = 224 => s[2] >= 160) /\ (b = 237 => s[2] <= 159) THEN 3
       ELSE IF b \in 240..244 /\ n >= 4 /\ IsCont(s[2]) /\ IsCont(s[3]) /\ IsCont(s[4])
               /\ (b = 240 => s[2] >= 144) /\ (b = 244 => s[2] <= 143) THEN 4
       ELSE 0

RuneWidth(s) == IF RuneSize(s) = 0 THEN 1 ELSE RuneSize(s)

\* the code point of the first rune (65533 = utf8.RuneError)
RuneValue(s) ==
    LET k == RuneSize(s)
    IN IF k = 0 THEN 65533
       ELSE IF k = 1 THEN s[1]
       ELSE IF k = 2 THEN (s[1] - 192) * 64 + (s[2] - 128)
       ELSE IF k = 3 THEN (s[1] - 224) * 4096 + (s[2] - 128) * 64 + (s[3] - 128)
       ELSE (s[1] - 240) * 262144 + (s[2] - 128) * 4096 + (s[3] - 128) * 64 + (s[4] - 128)

\* string(r) of the first rune: its UTF-8 bytes, EF BF BD for RuneError
RuneString(s) ==
    IF RuneSize(s) = 0 THEN <<239, 191, 189>> ELSE SubSeq(s, 1, RuneSize(s))

\* []rune(text), each rune kept as string(rune)
RECURSIVE Runes(_)
Runes(s) ==
    IF s = <<>> THEN <<>> ELSE <<RuneString(s)>> \o Runes(Drop(s, RuneWidth(s)))

-----------------------------------------------------------------------------
(* Tokenizer *)

\* float32(-1e30), below every score of a vocabulary
NegInfScore == -1000000
TypeControl == 3

\* t.tokenToID[s]: built by a loop over Vocab, so a later duplicate wins; -1 = absent
TokenToID(t, s) ==
    LET hits == {i \in 0..(Len(t.Vocab) - 1) : t.Vocab[i + 1] = s}
    IN IF hits = {} THEN -1 ELSE CHOOSE i \in hits : \A j \in hits : j <= i

\* t.byteTokens[b]
ByteToken(t, b) == TokenToID(t, ByteName(b))

\* the ids NewTokenizer registers in t.specialTokens
SpecialIDs(t) ==
    {i \in 0..(Len(t.Types) - 1) :
        t.Types[i + 1] = TypeControl /\ i < Len(t.Vocab) /\ Len(t.Vocab[i + 1]) > 2}

\* the keys of t.specialTokens
SpecialTokens(t) == {t.Vocab[i + 1] : i \in SpecialIDs(t)}

\* t.specialTokens[s] for a key s (a later duplicate wins)
SpecialID(t, s) ==
    LET hits == {i \in SpecialIDs(t) : t.Vocab[i + 1] = s}
    IN CHOOSE i \in hits : \A j \in hits : j <= i

\* t.mergePriority[pair]: built by a loop over TokenMerges; -1 = absent
MergeRank(t, pair) ==
    LET hits == {i \in 0..(Len(t.Merges) - 1) : t.Merges[i + 1] = pair}
    IN IF hits = {} THEN -1 ELSE CHOOSE i \in hits : \A j \in hits : j <= i

\* len(t.mergePriority): the number of distinct merge strings
MergeCount(t) == Cardinality({t.Merges[i] : i \in 1..Len(t.Merges)})

IsGPT2Meta(meta) ==
    meta.TokenModel = "gpt2" \/ (Len(meta.TokenMerges) > 0 /\ Len(meta.TokenScores) = 0)

NewTokenizer(meta) ==
    [Vocab |-> meta.TokenList,
     Scores |-> meta.TokenScores,
     Types |-> meta.TokenTypes,
     VocabSize |-> meta.VocabSize,
     BosID |-> meta.BosID,
     EosID |-> meta.EosID,
     AddSpacePrefix |-> IF IsGPT2Meta(meta) THEN FALSE ELSE meta.AddSpacePrefix,
     IsGPT2 |-> IsGPT2Meta(meta),
     Merges |-> IF IsGPT2Meta(meta) THEN meta.TokenMerges ELSE <<>>]

\* a scan that keeps the shortest special token at the earliest position
BestSpecialShortest(t, remaining) ==
    LET found == {tk \in SpecialTokens(t) : Index(remaining, tk) >= 0}
    IN IF found = {} THEN <<>>
       ELSE CHOOSE tk \in found : \A o \in found :
                \/ Index(remaining, tk) < Index(remaining, o)
                \/ (Index(remaining, tk) = Index(remaining, o) /\ Len(tk) <= Len(o))

\* one round of the scan in splitOnSpecialTokens: the special token that occurs
\* earliest in remaining, the longest one among those at that position
BestSpecial(t, remaining) ==
    LET found == {tk \in SpecialTokens(t) : Index(remaining, tk) >= 0}
    IN IF found = {} THEN <<>>
       ELSE CHOOSE tk \in found : \A o \in found :
                \/ Index(remaining, tk) < Index(remaining, o)
                \/ (Index(remaining, tk) = Index(remaining, o) /\ Len(tk) >= Len(o))

RECURSIVE SplitLoop(_, _)
SplitLoop(t, remaining) ==
    IF Len(remaining) = 0 THEN <<>>
    ELSE LET best == BestSpecial(t, remaining)
             bestPos == Index(remaining, best)
         IN IF best = <<>> THEN <<remaining>>
            ELSE (IF bestPos > 0 THEN <<Prefix(remaining, bestPos)>> ELSE <<>>)
                 \o <<best>> \o SplitLoop(t, Drop(remaining, bestPos + Len(best)))

splitOnSpecialTokens(t, text) ==
    IF SpecialTokens(t) = {} THEN <<text>> ELSE SplitLoop(t, text)

\* the initial symbols of one rune: itself when in the vocabulary, else <0xNN> per byte
RuneSymbols(t, r) ==
    IF TokenToID(t, r) >= 0 THEN <<r>> ELSE [k \in 1..Len(r) |-> ByteName(r[k])]

initialTokenizeSP(t, text) ==
    LET rs == Runes(text)
    IN Concat([k \in 1..Len(rs) |-> RuneSymbols(t, rs[k])])

MergeAt(symbols, bestIdx) ==
    SubSeq(symbols, 1, bestIdx)
        \o <<symbols[bestIdx + 1] \o symbols[bestIdx + 2]>>
        \o SubSeq(symbols, bestIdx + 3, Len(symbols))

\* a scan that lets a later pair of the same score replace the best one
RECURSIVE ScoreScanLast(_, _, _, _)
ScoreScanLast(t, symbols, i, best) ==
    IF i >= Len(symbols) - 1 THEN best
    ELSE LET id == TokenToID(t, symbols[i + 1] \o symbols[i + 2])
         IN IF id >= 0 /\ id < Len(t.Scores) /\ t.Scores[id + 1] >= best.score
            THEN ScoreScanLast(t, symbols, i + 1, [idx |-> i, score |-> t.Scores[id + 1]])
            ELSE ScoreScanLast(t, symbols, i + 1, best)

\* the scan of bpeMergeScores: [idx, score] after looking at pairs 0..i-1
RECURSIVE ScoreScan(_, _, _, _)
ScoreScan(t, symbols, i, best) ==
    IF i >= Len(symbols) - 1 THEN best
    ELSE LET id == TokenToID(t, symbols[i + 1] \o symbols[i + 2])
         IN IF id >= 0 /\ id < Len(t.Scores) /\ t.Scores[id + 1] > best.score
            THEN ScoreScan(t, symbols, i + 1, [idx |-> i, score |-> t.Scores[id + 1]])
            ELSE ScoreScan(t, symbols, i + 1, best)

RECURSIVE bpeMergeScores(_, _)
bpeMergeScores(t, symbols) ==
    LET best == ScoreScan(t, symbols, 0, [idx |-> -1, score |-> NegInfScore])
    IN IF best.idx < 0 THEN symbols ELSE bpeMergeScores(t, MergeAt(symbols, best.idx))

\* the scan of bpeMergeGPT2: [idx, rank] after looking at pairs 0..i-1
RECURSIVE RankScan(_, _, _, _)
RankScan(t, symbols, i, best) ==
    IF i >= Len(symbols) - 1 THEN best
    ELSE LET rank == MergeRank(t, symbols[i + 1] \o <<SPACE>> \o symbols[i + 2])
         IN IF rank >= 0 /\ rank < best.rank
            THEN RankScan(t, symbols, i + 1, [idx |-> i, rank |-> rank])
            ELSE RankScan(t, symbols, i + 1, best)

RECURSIVE bpeMergeGPT2(_, _)
bpeMergeGPT2(t, symbols) ==
    LET best == RankScan(t, symbols, 0, [idx |-> -1, rank |-> MergeCount(t) + 1])
    IN IF best.idx < 0 THEN symbols ELSE bpeMergeGPT2(t, MergeAt(symbols, best.idx))

bpeMerge(t, symbols) ==
    IF t.IsGPT2 THEN bpeMergeGPT2(t, symbols) ELSE bpeMergeScores(t, symbols)

\* the ids of one symbol: its id, else the byte tokens of its bytes that exist
SymbolIDs(t, sym) ==
    IF TokenToID(t, sym) >= 0 THEN <<TokenToID(t, sym)>>
    ELSE Concat([k \in 1..Len(sym) |->
            IF ByteToken(t, sym[k]) >= 0 THEN <<ByteToken(t, sym[k])>> ELSE <<>>])

symbolsToIDs(t, symbols) ==
    Concat([k \in 1..Len(symbols) |-> SymbolIDs(t, symbols[k])])

encodeGPT2(t, text) ==
    LET symbols == [k \in 1..Len(text) |->
                      IF TokenToID(t, <<text[k]>>) >= 0 THEN <<text[k]>>
                      ELSE ByteName(text[k])]
    IN symbolsToIDs(t, bpeMerge(t, symbols))

encodeSentencePiece(t, text) ==
    IF t.IsGPT2 THEN encodeGPT2(t, text)
    ELSE LET pre == IF t.AddSpacePrefix /\ Len(text) > 0 /\ text[1] # SPACE
                    THEN <<SPACE>> \o text ELSE text
             marked == ReplaceAll(pre, <<SPACE>>, SPMark)
         IN symbolsToIDs(t, bpeMerge(t, initialTokenizeSP(t, marked)))

Encode(t, text, addBos) ==
    LET bos == IF addBos /\ t.BosID >= 0 THEN <<t.BosID>> ELSE <<>>
        segments == splitOnSpecialTokens(t, text)
    IN IF Len(text) = 0 THEN bos
       ELSE bos \o Concat([k \in 1..Len(segments) |->
                IF segments[k] \in SpecialTokens(t)
                THEN <<SpecialID(t, segments[k])>>
                ELSE encodeSentencePiece(t, segments[k])])

\* gpt2UnicodeToByteMap[r] for a code point r, -1 when r is no key of the map
Gpt2Byte(r) ==
    IF r \in 33..126 \/ r \in 161..172 \/ r \in 174..255 THEN r
    ELSE IF r \in 256..288 THEN r - 256
    ELSE IF r \in 289..322 THEN r - 289 + 127
    ELSE IF r = 323 THEN 173
    ELSE -1

RECURSIVE gpt2DecodePiece(_)
gpt2DecodePiece(piece) ==
    IF Len(piece) = 0 THEN <<>>
    ELSE (IF Gpt2Byte(RuneValue(piece)) >= 0 THEN <<Gpt2Byte(RuneValue(piece))>>
          ELSE Prefix(piece, RuneWidth(piece)))
         \o gpt2DecodePiece(Drop(piece, RuneWidth(piece)))

DecodeToken(t, id) ==
    IF id < 0 \/ id >= t.VocabSize THEN <<>>
    ELSE LET piece == t.Vocab[id + 1]
         IN IF IsByteName(piece) THEN <<ScanByte(piece)>>
            ELSE IF t.IsGPT2 THEN gpt2DecodePiece(piece)
            ELSE ReplaceAll(piece, SPMark, <<SPACE>>)

\* the bytes Decode writes for one id
DecodePiece(t, id) ==
    IF id < 0 \/ id >= t.VocabSize THEN <<>>
    ELSE IF t.Types # <<>> /\ id < Len(t.Types) /\ t.Types[id + 1] = TypeControl THEN <<>>
    ELSE DecodeToken(t, id)

Decode(t, ids) ==
    LET result == Concat([k \in 1..Len(ids) |-> DecodePiece(t, ids[k])])
    IN IF t.AddSpacePrefix /\ Len(result) > 0 /\ result[1] = SPACE
       THEN Tail(result) ELSE result

-----------------------------------------------------------------------------
(* Model state the engine drives (LlamaModel: Reset and Forward) *)

\* gModel.Reset(): curPos back to zero, no KV slot written
ModelReset == <<>>

\* gModel.Forward(tok, pos): KV slot pos is written; f lists the slots written so far
ModelForward(f, pos) == Append(f, pos)

-----------------------------------------------------------------------------
(* Generation: the goroutine of wtf_generate *)

graceLimit == 32
CycleLen == 8

\* allTokens: [optional BOS] + anchor tokens + user tokens
BuildTokens(t, prompt, anchorPrompt) ==
    (IF t.BosID >= 0 /\ t.BosID # t.EosID THEN <<t.BosID>> ELSE <<>>)
        \o (IF anchorPrompt # <<>> THEN Encode(t, anchorPrompt, FALSE) ELSE <<>>)
        \o Encode(t, prompt, FALSE)

\* a prefill that counts its positions from pos + 1
PrefillFromOne(n, pos, SeqLen) ==
    [k \in 1..(IF SeqLen - 1 < 1 THEN Min(n, 1) ELSE Min(n, SeqLen - 1)) |-> pos + k]

\* the prefill loop from position pos with n tokens left: the positions it forwards.
\* Each round forwards, advances, and only then tests pos >= SeqLen-1.
RECURSIVE PrefillPositions(_, _, _)
PrefillPositions(n, pos, SeqLen) ==
    IF n = 0 THEN <<>>
    ELSE <<pos>> \o (IF pos + 1 >= SeqLen - 1 THEN <<>>
                     ELSE PrefillPositions(n - 1, pos + 1, SeqLen))

\* a loop header whose iteration limit is off by one
LoopCondOffByOne(i, maxTok, outLen, maxOut) == i <= maxTok + graceLimit /\ outLen < maxOut

\* the loop header: i < maxTok+graceLimit && len(output) < maxOut
LoopCond(i, maxTok, outLen, maxOut) == i < maxTok + graceLimit /\ outLen < maxOut

\* grace entered one iteration late
EnterGraceLate(inGrace, i, maxTok) == inGrace \/ i > maxTok

\* if i >= maxTok && !inGrace { inGrace = true }
EnterGrace(inGrace, i, maxTok) == inGrace \/ i >= maxTok

IsStopByte(b) == b = DOT \/ b = BANG \/ b = QUESTION \/ b = NEWLINE

\* the grace break: inGrace, a non-empty output, and its last byte ends a sentence
GraceStop(inGrace, output) ==
    inGrace /\ Len(output) > 0 /\ IsStopByte(Last(output))

\* tokenCounts[k]++ on a Go map (a missing key counts as 0)
CountInc(m, k) ==
    [x \in DOMAIN m \cup {k} |-> IF x = k THEN (IF k \in DOMAIN m THEN m[k] + 1 ELSE 1)
                                 ELSE m[x]]

\* tokenCounts[k]--, then delete(tokenCounts, k) when the count is <= 0
CountDec(m, k) ==
    LET c == (IF k \in DOMAIN m THEN m[k] ELSE 0) - 1
    IN IF c <= 0 THEN [x \in DOMAIN m \ {k} |-> m[x]]
       ELSE [x \in DOMAIN m |-> IF x = k THEN c ELSE m[x]]

\* the window update of one iteration, with the window capacity w read at that time
WindowPush(recent, next, w) ==
    IF Len(recent) + 1 > w THEN Tail(Append(recent, next)) ELSE Append(recent, next)

CountPush(counts, recent, next, w) ==
    IF Len(recent) + 1 > w
    THEN CountDec(CountInc(counts, next), Append(recent, next)[1])
    ELSE CountInc(counts, next)

\* an EOS test that never fires
IsEosNever(t, next) == FALSE

\* next == gTokenizer.EosID
IsEos(t, next) == next = t.EosID

\* cycle detection on the window: the last 8 ids equal the 8 before them
IsCycle(recent) ==
    /\ Len(recent) >= 2 * CycleLen
    /\ \A k \in 0..(CycleLen - 1) :
          recent[Len(recent) - k] = recent[Len(recent) - CycleLen - k]

\* hasCJK: "for _, b := range piece" ranges over the runes of the string piece
\* (an invalid byte yields utf8.RuneError), and tests b >= 0xE0 on the code point
HasCJK(piece) ==
    \E k \in 1..Len(Runes(piece)) : RuneValue(Runes(piece)[k]) >= 224

\* hasCJK && genCount > 5
DriftStop(piece, genCount) == HasCJK(piece) /\ genCount > 5

-----------------------------------------------------------------------------
(* Sampling. Logits, temperatures, top-p and the penalties are integers in
   hundredths; a probability is a weight in eighths of the largest one *)

\* init(): gRNG is seeded from the wall clock
Seeds == {0, 1}

\* gRNG.Float32(): the value in [0, 1) that generator state s yields, in 64ths
Float32(s) == 32 + 16 * s

\* the generator state after one Float32()
RngNext(s) == (s + 1) % 2

RECURSIVE SumTo(_, _)
SumTo(f, k) == IF k = 0 THEN 0 ELSE f[k] + SumTo(f, k - 1)

\* the largest of the first n entries
SeqMax(f, n) == CHOOSE m \in {f[i] : i \in 1..n} : \A i \in 1..n : f[i] <= m

\* math.Exp(d / temp) for d <= 0 and temp > 0, rounded to eighths
ExpW(d, temp) ==
    LET q == (0 - d) \div temp
    IN IF q <= 0 THEN 8 ELSE IF q = 1 THEN 3 ELSE IF q = 2 THEN 1 ELSE 0

\* a float32 NaN and negative infinity among logits in hundredths
NaN == 999999999
NegInf == -999999999

\* a > b on float32: false when either side is NaN
Gt(a, b) == a # NaN /\ b # NaN /\ a > b

\* the scan of argmax: best after looking at ids 1..i-1 (0-based)
RECURSIVE ArgmaxScan(_, _, _, _)
ArgmaxScan(logits, n, i, best) ==
    IF i >= n THEN best
    ELSE ArgmaxScan(logits, n, i + 1, IF Gt(logits[i + 1], logits[best + 1]) THEN i ELSE best)

\* argmax(logits, n): the first id with the largest logit; id 0 when logits[0]
\* is NaN, as no logit compares greater than NaN
argmax(logits, n) == ArgmaxScan(logits, n, 1, 0)

\* maxVal of sampleTopP: logits[0], replaced by every later logit that
\* compares greater
RECURSIVE MaxScan(_, _, _, _)
MaxScan(logits, n, i, maxVal) ==
    IF i >= n THEN maxVal
    ELSE MaxScan(logits, n, i + 1, IF Gt(logits[i + 1], maxVal) THEN logits[i + 1] ELSE maxVal)

\* float32(math.Exp((logit - maxVal) / temp)) in eighths: NaN from a NaN operand
\* and from -Inf - (-Inf), 0 from -Inf
ExpF(logit, maxVal, temp) ==
    IF logit = NaN \/ maxVal = NaN \/ (logit = NegInf /\ maxVal = NegInf) THEN NaN
    ELSE IF logit = NegInf THEN 0
    ELSE ExpW(logit - maxVal, temp)

\* the number of entries sorted before entry i: the larger ones, and of the
\* equal ones those of a smaller index
Rank(w, i) ==
    Cardinality({j \in 1..Len(w) : w[j] > w[i] \/ (w[j] = w[i] /\ j < i)})

\* the indexes of w in descending order of value. sort.Slice guarantees no
\* order among equal values; on slices this short it is an insertion sort,
\* which keeps them in index order, as does the insertion of sampleTopK
SortDesc(w) == [k \in 1..Len(w) |-> CHOOSE i \in 1..Len(w) : Rank(w, i) = k - 1]

\* a sampler that draws from all ids, whatever topP is
sampleWholeVocab(logits, vocab, temp, topP, draw) ==
    LET w == [i \in 1..vocab |-> ExpW(logits[i] - SeqMax(logits, vocab), temp)]
        picks == {j \in 1..vocab : draw * SumTo(w, vocab) <= 64 * SumTo(w, j)}
    IN (CHOOSE x \in picks : \A y \in picks : x <= y) - 1

\* sampleTopP with the value draw (in 64ths) of gRNG.Float32(). A NaN
\* probability makes sum and every normalized probability NaN: no comparison
\* of the sort holds (the candidates stay in id order on slices this short), no
\* cumsum >= topP holds, and the last return gives candidates[0].idx
sampleTopP(logits, vocab, temp, topP, draw) ==
    IF temp <= 0 THEN argmax(logits, vocab)
    ELSE LET maxVal == MaxScan(logits, vocab, 1, logits[1])
             w == [i \in 1..vocab |-> ExpF(logits[i], maxVal, temp)]
         IN IF \E i \in 1..vocab : w[i] = NaN THEN 0
            ELSE LET sum == SumTo(w, vocab)
                     cand == SortDesc(w)
                     p == [k \in 1..vocab |-> w[cand[k]]]
                     \* cumsum >= topP on the normalized probabilities p[k] / sum
                     hits == {i \in 1..vocab : 100 * SumTo(p, i) >= topP * sum}
                 IN IF hits = {} THEN cand[1] - 1
                    ELSE LET i == CHOOSE x \in hits : \A y \in hits : x <= y
                             \* r <= cdf with r = Float32() * cumsum
                             picks == {j \in 1..i : draw * SumTo(p, i) <= 64 * SumTo(p, j)}
                         IN IF picks = {} THEN cand[1] - 1
                            ELSE cand[CHOOSE x \in picks : \A y \in picks : x <= y] - 1

\* sb.topIdx after the single pass of sampleTopK: the ids whose logit compares
\* greater than the initial topVal of -1e30 (never a NaN or -Inf logit), the
\* largest topK of them in descending order, equal logits in id order; the
\* slots left over keep -1 and are not part of this list
TopIdx(logits, vocab, topK) ==
    LET valid == {i \in 1..vocab : Gt(logits[i], NegInfScore)}
        before(i) == Cardinality({j \in valid :
                        logits[j] > logits[i] \/ (logits[j] = logits[i] /\ j < i)})
    IN [r \in 1..Min(topK, Cardinality(valid)) |->
           CHOOSE i \in valid : before(i) = r - 1]

\* sampleTopK with the value draw (in 64ths) of gRNG.Float32(). When no logit
\* enters the top list, sum and r are 0, r <= cdf holds at once and the id
\* returned is int(sb.topIdx[0]) = -1
sampleTopK(logits, vocab, temp, topK, draw) ==
    IF temp <= 0 THEN argmax(logits, vocab)
    ELSE LET topIdx == TopIdx(logits, vocab, Min(topK, vocab))
             k == Len(topIdx)
         IN IF k = 0 THEN -1
            ELSE LET maxVal == logits[topIdx[1]]
                     p == [i \in 1..k |-> ExpW(logits[topIdx[i]] - maxVal, temp)]
                     picks == {i \in 1..k : draw * SumTo(p, k) <= 64 * SumTo(p, i)}
                 IN IF picks = {} THEN topIdx[1] - 1
                    ELSE topIdx[CHOOSE x \in picks : \A y \in picks : x <= y] - 1

\* a penalty that divides every logit by rho, whatever its sign
RepPenalizeDivide(logits, recent, rp) ==
    [i \in 1..Len(logits) |->
        IF \E k \in 1..Len(recent) : recent[k] = i - 1
        THEN (IF logits[i] > 0 THEN (logits[i] * 100) \div rp
              ELSE 0 - ((0 - logits[i]) * 100) \div rp)
        ELSE logits[i]]

\* the repetition penalty, applied once for every entry of recentTokens
RECURSIVE RepPenalize(_, _, _)
RepPenalize(logits, recent, rp) ==
    IF recent = <<>> THEN logits
    ELSE LET tok == Head(recent) + 1
             logit == logits[tok]
         IN RepPenalize([logits EXCEPT ![tok] = IF logit > 0 THEN (logit * 100) \div rp
                                                ELSE (logit * rp) \div 100],
                        Tail(recent), rp)

\* the frequency penalty: logit -= freqPenalty * count for every counted id
FreqPenalize(logits, counts, fp) ==
    [i \in 1..Len(logits) |->
        IF (i - 1) \in DOMAIN counts THEN logits[i] - fp * counts[i - 1] ELSE logits[i]]

\* the logits one iteration hands to the sampler
Penalized(logits, recent, counts, cfg) ==
    LET a == IF cfg.rp > 100 THEN RepPenalize(logits, recent, cfg.rp) ELSE logits
    IN IF cfg.fp > 0 THEN FreqPenalize(a, counts, cfg.fp) ELSE a

\* logits that single out id k - 1
Peaked(vocab, k) == [i \in 1..vocab |-> IF i = k THEN 0 ELSE -10000]

\* gModel.State.Logits after a Forward. A model file of flat weights gives
\* every id the logit 0; with any other file the logits can single out any id
LogitsOf(m) ==
    IF m.Weights = "flat" THEN {[i \in 1..m.VocabSize |-> 0]}
    ELSE {Peaked(m.VocabSize, k) : k \in 1..m.VocabSize}

\* what sampleTopP / sampleTopK can return for a model of vocab ids
SampleIds(vocab) == 0..(vocab - 1)

\* the goroutine's locals before it runs
GenIdle == [phase |-> "idle"]

-----------------------------------------------------------------------------
(* Inputs: model files, texts, call arguments, caller threads *)

MaxSmallSeq == 3
LongSeq == 40
MaxTokens == 2

Threads == {1, 2}

\* "</s>", "a", ".", "<s>"
RichVocab == <<<<60, 47, 115, 62>>, <<97>>, <<DOT>>, <<60, 115, 62>>>>
\* "</s>", "a", "."
PlainVocab == <<<<60, 47, 115, 62>>, <<97>>, <<DOT>>>>

\* SentencePiece metadata with a BOS token of its own (id 3) and EOS id 0
RichMeta ==
    [TokenList |-> RichVocab, TokenScores |-> <<0, 0, 0, 0>>,
     TokenTypes |-> <<3, 1, 1, 3>>, VocabSize |-> 4, BosID |-> 3, EosID |-> 0,
     AddSpacePrefix |-> FALSE, TokenModel |-> "llama", TokenMerges |-> <<>>]

\* SentencePiece metadata with BOS = EOS = 0 (no BOS is prepended)
PlainMeta ==
    [TokenList |-> PlainVocab, TokenScores |-> <<0, 0, 0>>,
     TokenTypes |-> <<3, 1, 1>>, VocabSize |-> 3, BosID |-> 0, EosID |-> 0,
     AddSpacePrefix |-> FALSE, TokenModel |-> "llama", TokenMerges |-> <<>>]

\* "</s>", "a", ".", "é" (U+00E9, 2 bytes), "中" (U+4E2D, 3 bytes)
DriftVocab ==
    <<<<60, 47, 115, 62>>, <<97>>, <<DOT>>, <<195, 169>>, <<228, 184, 173>>>>

\* SentencePiece metadata whose vocabulary has non-ASCII tokens
DriftMeta ==
    [TokenList |-> DriftVocab, TokenScores |-> <<0, 0, 0, 0, 0>>,
     TokenTypes |-> <<3, 1, 1, 1, 1>>, VocabSize |-> 5, BosID |-> 0, EosID |-> 0,
     AddSpacePrefix |-> FALSE, TokenModel |-> "llama", TokenMerges |-> <<>>]

BadPath == <<"bad", 0>>
DriftPath == <<"drift", LongSeq>>
\* a model of flat weights with the vocabulary of PlainMeta
FlatPath == <<"flat", LongSeq>>
RichPaths == {<<"rich", s>> : s \in 1..MaxSmallSeq}
PlainPath == <<"plain", LongSeq>>
GoodPaths == RichPaths \cup {PlainPath}

\* LoadGGUF + LoadLlamaModel + NewTokenizer on the file at path: an error, or the
\* model configuration and tokenizer the file describes
LoadFile(path) ==
    IF path = BadPath THEN [err |-> TRUE]
    ELSE LET meta == IF path[1] = "rich" THEN RichMeta
                     ELSE IF path[1] = "drift" THEN DriftMeta
                     ELSE PlainMeta
         IN [err |-> FALSE,
             gguf |-> [path |-> path],
             model |-> [SeqLen |-> path[2], VocabSize |-> meta.VocabSize, EmbedDim |-> 8,
                        Weights |-> IF path[1] = "flat" THEN "flat" ELSE "any"],
             tokenizer |-> NewTokenizer(meta)]

\* newSampleBuffers(vocab)
newSampleBuffers(vocab) == [vocab |-> vocab]

Prompts == {<<>>, <<97, 97>>}
Anchors == {<<>>, <<97>>}
OutCaps == {0, 1, 3, 64}
Temps == {50}
TopPs == {90}
Windows == {8, 16}
Penalties == {115}
FreqPenalties == {0, 50}
TempFloors == {90}

GenArgs ==
    [op : {"generate"}, prompt : Prompts, anchor : Anchors,
     maxTokens : 0..MaxTokens, maxOutputLen : OutCaps, temperature : Temps, topP : TopPs]

NoArg == [op |-> "none"]
NoRet == [op |-> "none"]

-----------------------------------------------------------------------------
(* The mutex, panics *)

\* no wtf_init has succeeded since the start or since the last wtf_free
Unloaded == live # "loaded"

\* a Lock() that returns whether or not the mutex is held
MuFreeAlways == TRUE

\* gMu.Lock() can return: the mutex is not held
MuFree == gMu = Unlocked

\* a Go panic (nil dereference, slice bounds, makeslice) ends the process
Running == \A t \in Threads : pc[t] # "panic"

-----------------------------------------------------------------------------
(* Settings: the three setters take no lock *)

wtf_set_temp_floor(t, floor) ==
    /\ Running /\ pc[t] = "idle"
    /\ tempFloor' = floor
    /\ UNCHANGED <<gRNG, gModel, gTokenizer, gGGUF, gSampleBuf, gMu, repPenalty, repWindow,
                   freqPenalty, pc, arg, seen, ret, gor, ch, gen, fwd, live>>

wtf_set_rep_penalty(t, penalty, window) ==
    /\ Running /\ pc[t] = "idle"
    /\ repPenalty' = penalty
    /\ repWindow' = window
    /\ UNCHANGED <<gRNG, gModel, gTokenizer, gGGUF, gSampleBuf, gMu, tempFloor,
                   freqPenalty, pc, arg, seen, ret, gor, ch, gen, fwd, live>>

wtf_set_freq_penalty(t, penalty) ==
    /\ Running /\ pc[t] = "idle"
    /\ freqPenalty' = penalty
    /\ UNCHANGED <<gRNG, gModel, gTokenizer, gGGUF, gSampleBuf, gMu, tempFloor, repPenalty,
                   repWindow, pc, arg, seen, ret, gor, ch, gen, fwd, live>>

-----------------------------------------------------------------------------
(* wtf_generate *)

\* the sampler settings as the goroutine reads them at one moment
Settings == [rp |-> repPenalty, fp |-> freqPenalty, w |-> repWindow]

\* where a wtf_generate call of thread t stands: the guards of its steps
AtCheck(t) == Running /\ pc[t] = "gen_check"
AtPrefill(t) == Running /\ gor[t] = "run" /\ gen[t].phase = "start"
AtLoop(t) == Running /\ gor[t] = "run" /\ gen[t].phase = "loop"
AtSend(t) == Running /\ gor[t] = "run" /\ gen[t].phase = "send"

\* gMu.Lock() with the arguments of the call
GenLock(t, a) ==
    /\ Running /\ pc[t] = "idle" /\ MuFree
    /\ gMu' = <<t>>
    /\ pc' = [pc EXCEPT ![t] = "gen_check"]
    /\ arg' = [arg EXCEPT ![t] = a]
    /\ ret' = [ret EXCEPT ![t] = NoRet]
    /\ gen' = [gen EXCEPT ![t] = GenIdle]
    /\ UNCHANGED <<gRNG, gModel, gTokenizer, gGGUF, gSampleBuf, tempFloor, repPenalty,
                   repWindow, freqPenalty, seen, gor, ch, fwd, live>>

\* the nil check, the locals (maxTok, maxOut, temp, tp) and the start of the goroutine
GenCheck(t) ==
    /\ AtCheck(t)
    /\ IF gModel = Nil \/ gTokenizer = Nil
       THEN /\ ret' = [ret EXCEPT ![t] = [op |-> "generate", val |-> 0, wrote |-> 0, uninit |-> Unloaded]]
            /\ pc' = [pc EXCEPT ![t] = "idle"]
            /\ gMu' = Unlocked
            /\ arg' = [arg EXCEPT ![t] = NoArg]
            /\ UNCHANGED <<gor, gen>>
       ELSE /\ arg' = [arg EXCEPT ![t] =
                 [op |-> "generate", prompt |-> arg[t].prompt, anchor |-> arg[t].anchor,
                  maxTok |-> arg[t].maxTokens, maxOut |-> arg[t].maxOutputLen - 1,
                  temp |-> IF arg[t].temperature < tempFloor THEN tempFloor
                           ELSE arg[t].temperature,
                  tp |-> arg[t].topP, uninit |-> Unloaded]]
            /\ gor' = [gor EXCEPT ![t] = "run"]
            /\ gen' = [gen EXCEPT ![t] = [phase |-> "start"]]
            /\ pc' = [pc EXCEPT ![t] = "gen_wait"]
            /\ UNCHANGED <<ret, gMu>>
    /\ UNCHANGED <<gRNG, gModel, gTokenizer, gGGUF, gSampleBuf, tempFloor, repPenalty,
                   repWindow, freqPenalty, seen, ch, fwd, live>>

\* the goroutine up to the loop: tokens, Reset, prefill, the loop's locals
GenPrefill(t) ==
    /\ AtPrefill(t)
    /\ LET all == BuildTokens(gTokenizer, arg[t].prompt, arg[t].anchor)
           pp == PrefillPositions(Len(all), 0, gModel.SeqLen)
       IN /\ fwd' = ModelReset \o pp
          \* make([]int, 0, repWindow) panics for a negative capacity
          /\ pc' = IF repWindow < 0 THEN [pc EXCEPT ![t] = "panic"] ELSE pc
          /\ gen' = IF repWindow < 0 THEN gen
                    ELSE [gen EXCEPT ![t] =
                        [phase |-> "loop", allTokens |-> all, pos |-> Len(pp),
                         output |-> <<>>, genCount |-> 0, i |-> 0, inGrace |-> FALSE,
                         recentTokens |-> <<>>, tokenCounts |-> <<>>,
                         stop |-> "none", sampled |-> <<>>, prefill |-> Len(pp),
                         iterOut |-> <<>>, iters |-> 0,
                         cfg0 |-> Settings, cfg |-> Settings]]
    /\ UNCHANGED <<gRNG, gModel, gTokenizer, gGGUF, gSampleBuf, gMu, tempFloor, repPenalty,
                   repWindow, freqPenalty, arg, seen, ret, gor, ch, live>>

\* the loop header fails: the loop ends without an iteration
LoopExit(t) ==
    /\ AtLoop(t)
    /\ ~LoopCond(gen[t].i, arg[t].maxTok, Len(gen[t].output), arg[t].maxOut)
    /\ gen' = [gen EXCEPT ![t].phase = "send", ![t].stop = "limit"]
    /\ UNCHANGED <<gRNG, gModel, gTokenizer, gGGUF, gSampleBuf, gMu, tempFloor, repPenalty,
                   repWindow, freqPenalty, pc, arg, seen, ret, gor, ch, fwd, live>>

\* an iteration that breaks in grace before sampling
GraceBreak(t) ==
    /\ AtLoop(t)
    /\ LoopCond(gen[t].i, arg[t].maxTok, Len(gen[t].output), arg[t].maxOut)
    /\ GraceStop(EnterGrace(gen[t].inGrace, gen[t].i, arg[t].maxTok), gen[t].output)
    /\ gen' = [gen EXCEPT ![t].phase = "send", ![t].stop = "grace",
                          ![t].inGrace = TRUE, ![t].iterOut = gen[t].output,
                          ![t].iters = gen[t].iters + 1]
    /\ UNCHANGED <<gRNG, gModel, gTokenizer, gGGUF, gSampleBuf, gMu, tempFloor, repPenalty,
                   repWindow, freqPenalty, pc, arg, seen, ret, gor, ch, fwd, live>>

\* the locals after one iteration that samples next, from locals g
IterResult(g, next, tk, SeqLen, cfg) ==
    LET recent == WindowPush(g.recentTokens, next, cfg.w)
        counts == CountPush(g.tokenCounts, g.recentTokens, next, cfg.w)
        piece == DecodeToken(tk, next)
        base == [g EXCEPT !.recentTokens = recent, !.tokenCounts = counts,
                          !.sampled = Append(g.sampled, next),
                          !.iterOut = g.output, !.iters = g.iters + 1, !.cfg = cfg]
    IN IF IsEos(tk, next) THEN [base EXCEPT !.phase = "send", !.stop = "eos"]
       ELSE IF IsCycle(recent) THEN [base EXCEPT !.phase = "send", !.stop = "cycle"]
       ELSE IF DriftStop(piece, g.genCount) THEN [base EXCEPT !.phase = "send", !.stop = "cjk"]
       ELSE [base EXCEPT !.output = g.output \o piece,
                         !.pos = g.pos + 1,
                         !.genCount = g.genCount + 1,
                         !.i = IF g.pos + 1 >= SeqLen THEN g.i ELSE g.i + 1,
                         !.phase = IF g.pos + 1 >= SeqLen THEN "send" ELSE "loop",
                         !.stop = IF g.pos + 1 >= SeqLen THEN "seqlen" ELSE "none"]

\* one iteration of the decode loop that reaches the sampler
DecodeIter(t) ==
    /\ AtLoop(t)
    /\ LoopCond(gen[t].i, arg[t].maxTok, Len(gen[t].output), arg[t].maxOut)
    /\ ~GraceStop(EnterGrace(gen[t].inGrace, gen[t].i, arg[t].maxTok), gen[t].output)
    /\ \E lg \in LogitsOf(gModel) :
          LET g0 == [gen[t] EXCEPT !.inGrace =
                        EnterGrace(gen[t].inGrace, gen[t].i, arg[t].maxTok)]
              logits == Penalized(lg, gen[t].recentTokens, gen[t].tokenCounts, Settings)
              next == IF arg[t].tp < 100
                      THEN sampleTopP(logits, gModel.VocabSize, arg[t].temp, arg[t].tp,
                                      Float32(gRNG))
                      ELSE sampleTopK(logits, gModel.VocabSize, arg[t].temp, 50,
                                      Float32(gRNG))
              g2 == IterResult(g0, next, gTokenizer, gModel.SeqLen, Settings)
          IN /\ gen' = [gen EXCEPT ![t] = g2]
             /\ fwd' = IF g2.genCount > g0.genCount THEN ModelForward(fwd, g0.pos)
                       ELSE fwd
    /\ gRNG' = IF arg[t].temp <= 0 THEN gRNG ELSE RngNext(gRNG)
    /\ UNCHANGED <<gModel, gTokenizer, gGGUF, gSampleBuf, gMu, tempFloor, repPenalty,
                   repWindow, freqPenalty, pc, arg, seen, ret, gor, ch, live>>

\* ch <- genResult{output, genCount}: the goroutine's last statement
GenSend(t) ==
    /\ AtSend(t)
    /\ ch' = [ch EXCEPT ![t] = <<[output |-> gen[t].output, genCount |-> gen[t].genCount]>>]
    /\ gor' = [gor EXCEPT ![t] = "done"]
    /\ gen' = [gen EXCEPT ![t].phase = "done"]
    /\ UNCHANGED <<gRNG, gModel, gTokenizer, gGGUF, gSampleBuf, gMu, tempFloor, repPenalty,
                   repWindow, freqPenalty, pc, arg, seen, ret, fwd, live>>

\* r := <-ch can proceed
CanRecv(t) == ch[t] # <<>>

AtRecv(t) == Running /\ pc[t] = "gen_wait" /\ CanRecv(t)

\* r := <-ch, the copy to the C buffer, the return and the deferred Unlock
GenRecv(t) ==
    /\ AtRecv(t)
    /\ LET r == ch[t][1]
           maxOut == arg[t].maxOut
       IN IF Len(r.output) > maxOut /\ maxOut < 0
          THEN /\ pc' = [pc EXCEPT ![t] = "panic"]
               /\ UNCHANGED <<ret, gMu, gor, ch, arg>>
          ELSE LET out == IF Len(r.output) > maxOut THEN Prefix(r.output, maxOut)
                          ELSE r.output
               IN /\ ret' = [ret EXCEPT ![t] =
                        [op |-> "generate", val |-> r.genCount, out |-> out,
                         wrote |-> Len(out) + 1, stop |-> gen[t].stop,
                         sampled |-> Len(gen[t].sampled), iters |-> gen[t].iters,
                         maxTokens |-> arg[t].maxTok, uninit |-> arg[t].uninit,
                         outCap |-> maxOut + 1, tokens |-> gen[t].sampled]]
                  /\ pc' = [pc EXCEPT ![t] = "idle"]
                  /\ gMu' = Unlocked
                  /\ gor' = [gor EXCEPT ![t] = "idle"]
                  /\ ch' = [ch EXCEPT ![t] = <<>>]
                  /\ arg' = [arg EXCEPT ![t] = NoArg]
    /\ gen' = [gen EXCEPT ![t] = GenIdle]
    /\ UNCHANGED <<gRNG, gModel, gTokenizer, gGGUF, gSampleBuf, tempFloor, repPenalty,
                   repWindow, freqPenalty, seen, fwd, live>>


-----------------------------------------------------------------------------
(* wtf_init, wtf_free, wtf_reset: under gMu *)

\* gMu.Lock(), and the start of the loader goroutine
InitLock(t, path) ==
    /\ Running /\ pc[t] = "idle" /\ MuFree
    /\ gMu' = <<t>>
    /\ pc' = [pc EXCEPT ![t] = "init_wait"]
    /\ arg' = [arg EXCEPT ![t] = [op |-> "init", path |-> path]]
    /\ ret' = [ret EXCEPT ![t] = NoRet]
    /\ gor' = [gor EXCEPT ![t] = "run"]
    /\ UNCHANGED <<gRNG, gModel, gTokenizer, gGGUF, gSampleBuf, tempFloor, repPenalty,
                   repWindow, freqPenalty, seen, ch, gen, fwd, live>>

\* the loader goroutine: LoadGGUF, LoadLlamaModel, NewTokenizer, ch <- r
InitLoad(t) ==
    /\ Running /\ gor[t] = "run" /\ arg[t].op = "init"
    /\ ch' = [ch EXCEPT ![t] = <<LoadFile(arg[t].path)>>]
    /\ gor' = [gor EXCEPT ![t] = "done"]
    /\ UNCHANGED <<gRNG, gModel, gTokenizer, gGGUF, gSampleBuf, gMu, tempFloor, repPenalty,
                   repWindow, freqPenalty, pc, arg, seen, ret, gen, fwd, live>>

\* r := <-ch; on an error return -1 (and Unlock), else gGGUF = r.gguf
InitRecv(t) ==
    /\ Running /\ pc[t] = "init_wait" /\ CanRecv(t)
    /\ LET r == ch[t][1]
       IN IF r.err
          THEN /\ ret' = [ret EXCEPT ![t] = [op |-> "init", val |-> -1]]
               /\ pc' = [pc EXCEPT ![t] = "idle"]
               /\ arg' = [arg EXCEPT ![t] = NoArg]
               /\ gMu' = Unlocked
               /\ UNCHANGED <<gGGUF, live>>
          ELSE /\ gGGUF' = r.gguf
               /\ pc' = [pc EXCEPT ![t] = "init_model"]
               /\ arg' = [arg EXCEPT ![t] = [op |-> "init", r |-> r]]
               /\ live' = "loaded"
               /\ UNCHANGED <<ret, gMu>>
    /\ ch' = [ch EXCEPT ![t] = <<>>]
    /\ gor' = [gor EXCEPT ![t] = "idle"]
    /\ UNCHANGED <<gRNG, gModel, gTokenizer, gSampleBuf, tempFloor, repPenalty,
                   repWindow, freqPenalty, seen, gen, fwd>>

\* gModel = r.model
InitModel(t) ==
    /\ Running /\ pc[t] = "init_model"
    /\ gModel' = arg[t].r.model
    /\ pc' = [pc EXCEPT ![t] = "init_rest"]
    /\ UNCHANGED <<gRNG, gTokenizer, gGGUF, gSampleBuf, gMu, tempFloor, repPenalty,
                   repWindow, freqPenalty, arg, seen, ret, gor, ch, gen, fwd, live>>

\* gTokenizer = r.tokenizer; gSampleBuf = newSampleBuffers(...); return 0 (and Unlock).
\* The model file is loaded afresh: no KV slot of the new model is written.
InitRest(t) ==
    /\ Running /\ pc[t] = "init_rest"
    /\ gTokenizer' = arg[t].r.tokenizer
    /\ gSampleBuf' = IF gModel = Nil THEN Nil ELSE newSampleBuffers(gModel.VocabSize)
    /\ fwd' = ModelReset
    /\ ret' = [ret EXCEPT ![t] = [op |-> "init", val |-> 0]]
    /\ pc' = [pc EXCEPT ![t] = "idle"]
    /\ arg' = [arg EXCEPT ![t] = NoArg]
    /\ gMu' = Unlocked
    /\ UNCHANGED <<gRNG, gModel, gGGUF, tempFloor, repPenalty, repWindow, freqPenalty,
                   seen, gor, ch, gen, live>>

\* what wtf_free stores in gTokenizer
FreedTokenizer == Nil

FreeLock(t) ==
    /\ Running /\ pc[t] = "idle" /\ MuFree
    /\ gMu' = <<t>>
    /\ pc' = [pc EXCEPT ![t] = "free_model"]
    /\ arg' = [arg EXCEPT ![t] = [op |-> "free"]]
    /\ ret' = [ret EXCEPT ![t] = NoRet]
    /\ UNCHANGED <<gRNG, gModel, gTokenizer, gGGUF, gSampleBuf, tempFloor, repPenalty,
                   repWindow, freqPenalty, seen, gor, ch, gen, fwd, live>>

\* gModel = nil
FreeModel(t) ==
    /\ Running /\ pc[t] = "free_model"
    /\ gModel' = Nil
    /\ pc' = [pc EXCEPT ![t] = "free_rest"]
    /\ UNCHANGED <<gRNG, gTokenizer, gGGUF, gSampleBuf, gMu, tempFloor, repPenalty,
                   repWindow, freqPenalty, arg, seen, ret, gor, ch, gen, fwd, live>>

\* gTokenizer = nil; gGGUF = nil; gSampleBuf = nil; return (and Unlock)
FreeRest(t) ==
    /\ Running /\ pc[t] = "free_rest"
    /\ gTokenizer' = FreedTokenizer
    /\ gGGUF' = Nil
    /\ gSampleBuf' = Nil
    /\ fwd' = ModelReset
    /\ live' = "freed"
    /\ ret' = [ret EXCEPT ![t] = [op |-> "free", val |-> 0]]
    /\ pc' = [pc EXCEPT ![t] = "idle"]
    /\ arg' = [arg EXCEPT ![t] = NoArg]
    /\ gMu' = Unlocked
    /\ UNCHANGED <<gRNG, gModel, tempFloor, repPenalty, repWindow, freqPenalty,
                   seen, gor, ch, gen>>

ResetLock(t) ==
    /\ Running /\ pc[t] = "idle" /\ MuFree
    /\ gMu' = <<t>>
    /\ pc' = [pc EXCEPT ![t] = "reset_body"]
    /\ arg' = [arg EXCEPT ![t] = [op |-> "reset"]]
    /\ ret' = [ret EXCEPT ![t] = NoRet]
    /\ UNCHANGED <<gRNG, gModel, gTokenizer, gGGUF, gSampleBuf, tempFloor, repPenalty,
                   repWindow, freqPenalty, seen, gor, ch, gen, fwd, live>>

\* if gModel != nil { gModel.Reset() }; val records whether Reset was called
ResetBody(t) ==
    /\ Running /\ pc[t] = "reset_body"
    /\ fwd' = IF gModel # Nil THEN ModelReset ELSE fwd
    /\ ret' = [ret EXCEPT ![t] = [op |-> "reset", val |-> IF gModel # Nil THEN 1 ELSE 0,
                                  uninit |-> Unloaded]]
    /\ pc' = [pc EXCEPT ![t] = "idle"]
    /\ arg' = [arg EXCEPT ![t] = NoArg]
    /\ gMu' = Unlocked
    /\ UNCHANGED <<gRNG, gModel, gTokenizer, gGGUF, gSampleBuf, tempFloor, repPenalty,
                   repWindow, freqPenalty, seen, gor, ch, gen, live>>

-----------------------------------------------------------------------------
(* wtf_encode, wtf_decode_token and the getters: no lock is taken *)

\* a nil test that never finds the pointer nil
NeverMissing(p) == FALSE

\* gTokenizer == nil / gModel == nil as read at the test
Missing(p) == p = Nil

EncArgs == [op : {"encode"}, text : {<<>>, <<97, 97>>}, maxTokens : {1}]
DecArgs == [op : {"decode_token"}, id : {-1, 1}, bufLen : {0, 4}]
Getters == {"get_vocab_size", "get_dim", "get_seq_len"}

\* if gTokenizer == nil { return 0 }
EncCheck(t, a) ==
    /\ Running /\ pc[t] = "idle"
    /\ IF Missing(gTokenizer)
       THEN /\ ret' = [ret EXCEPT ![t] = [op |-> "encode", val |-> 0, uninit |-> Unloaded]]
            /\ UNCHANGED <<pc, arg, seen>>
       ELSE /\ pc' = [pc EXCEPT ![t] = "enc_use"]
            /\ arg' = [arg EXCEPT ![t] =
                  [op |-> "encode", text |-> a.text, maxTokens |-> a.maxTokens,
                   uninit |-> Unloaded]]
            /\ seen' = [seen EXCEPT ![t] = gTokenizer]
            /\ ret' = [ret EXCEPT ![t] = NoRet]
    /\ UNCHANGED <<gRNG, gModel, gTokenizer, gGGUF, gSampleBuf, gMu, tempFloor, repPenalty,
                   repWindow, freqPenalty, gor, ch, gen, fwd, live>>

\* ids := gTokenizer.Encode(text, false) with gTokenizer read again, the cut to
\* maxTokens and the copy out. On a nil receiver Encode returns for an empty
\* text and dereferences nil otherwise.
EncUse(t) ==
    /\ Running /\ pc[t] = "enc_use"
    /\ LET text == arg[t].text
           max == arg[t].maxTokens
           ids == IF gTokenizer = Nil THEN <<>> ELSE Encode(gTokenizer, text, FALSE)
       IN IF (gTokenizer = Nil /\ Len(text) > 0) \/ (Len(ids) > max /\ max < 0)
          THEN /\ pc' = [pc EXCEPT ![t] = "panic"]
               /\ UNCHANGED <<ret, arg, seen>>
          ELSE /\ ret' = [ret EXCEPT ![t] =
                     [op |-> "encode", val |-> Len(Prefix(ids, max)),
                      ids |-> Prefix(ids, max), uninit |-> arg[t].uninit]]
               /\ pc' = [pc EXCEPT ![t] = "idle"]
               /\ arg' = [arg EXCEPT ![t] = NoArg]
               /\ seen' = [seen EXCEPT ![t] = Nil]
    /\ UNCHANGED <<gRNG, gModel, gTokenizer, gGGUF, gSampleBuf, gMu, tempFloor, repPenalty,
                   repWindow, freqPenalty, gor, ch, gen, fwd, live>>

\* if gTokenizer == nil || bufLen <= 0 { return 0 }
DecCheck(t, a) ==
    /\ Running /\ pc[t] = "idle"
    /\ IF Missing(gTokenizer) \/ a.bufLen <= 0
       THEN /\ ret' = [ret EXCEPT ![t] =
                  [op |-> "decode_token", val |-> 0, uninit |-> Unloaded]]
            /\ UNCHANGED <<pc, arg, seen>>
       ELSE /\ pc' = [pc EXCEPT ![t] = "dec_use"]
            /\ arg' = [arg EXCEPT ![t] =
                  [op |-> "decode_token", id |-> a.id, bufLen |-> a.bufLen,
                   uninit |-> Unloaded]]
            /\ seen' = [seen EXCEPT ![t] = gTokenizer]
            /\ ret' = [ret EXCEPT ![t] = NoRet]
    /\ UNCHANGED <<gRNG, gModel, gTokenizer, gGGUF, gSampleBuf, gMu, tempFloor, repPenalty,
                   repWindow, freqPenalty, gor, ch, gen, fwd, live>>

\* piece := gTokenizer.DecodeToken(int(id)) with gTokenizer read again, the cut to
\* bufLen-1 and the copy out. On a nil receiver DecodeToken returns "" for a
\* negative id and dereferences nil otherwise.
DecUse(t) ==
    /\ Running /\ pc[t] = "dec_use"
    /\ LET id == arg[t].id
           piece == IF gTokenizer = Nil THEN <<>> ELSE DecodeToken(gTokenizer, id)
           cut == Prefix(piece, arg[t].bufLen - 1)
       IN IF gTokenizer = Nil /\ id >= 0
          THEN /\ pc' = [pc EXCEPT ![t] = "panic"]
               /\ UNCHANGED <<ret, arg, seen>>
          ELSE /\ ret' = [ret EXCEPT ![t] =
                     [op |-> "decode_token", val |-> Len(cut), out |-> cut,
                      uninit |-> arg[t].uninit]]
               /\ pc' = [pc EXCEPT ![t] = "idle"]
               /\ arg' = [arg EXCEPT ![t] = NoArg]
               /\ seen' = [seen EXCEPT ![t] = Nil]
    /\ UNCHANGED <<gRNG, gModel, gTokenizer, gGGUF, gSampleBuf, gMu, tempFloor, repPenalty,
                   repWindow, freqPenalty, gor, ch, gen, fwd, live>>

\* the field of gModel.Config a getter returns
ConfigField(m, which) ==
    IF which = "get_vocab_size" THEN m.VocabSize
    ELSE IF which = "get_dim" THEN m.EmbedDim
    ELSE m.SeqLen

\* if gModel == nil { return 0 }
GetCheck(t, which) ==
    /\ Running /\ pc[t] = "idle"
    /\ IF Missing(gModel)
       THEN /\ ret' = [ret EXCEPT ![t] = [op |-> which, val |-> 0, uninit |-> Unloaded]]
            /\ UNCHANGED <<pc, arg>>
       ELSE /\ pc' = [pc EXCEPT ![t] = "get_use"]
            /\ arg' = [arg EXCEPT ![t] = [op |-> which, uninit |-> Unloaded]]
            /\ ret' = [ret EXCEPT ![t] = NoRet]
    /\ UNCHANGED <<gRNG, gModel, gTokenizer, gGGUF, gSampleBuf, gMu, tempFloor, repPenalty,
                   repWindow, freqPenalty, seen, gor, ch, gen, fwd, live>>

\* return C.int(gModel.Config.X) with gModel read again
GetUse(t) ==
    /\ Running /\ pc[t] = "get_use"
    /\ IF gModel = Nil
       THEN /\ pc' = [pc EXCEPT ![t] = "panic"]
            /\ UNCHANGED <<ret, arg>>
       ELSE /\ ret' = [ret EXCEPT ![t] =
                  [op |-> arg[t].op, val |-> ConfigField(gModel, arg[t].op),
                   uninit |-> arg[t].uninit]]
            /\ pc' = [pc EXCEPT ![t] = "idle"]
            /\ arg' = [arg EXCEPT ![t] = NoArg]
    /\ UNCHANGED <<gRNG, gModel, gTokenizer, gGGUF, gSampleBuf, gMu, tempFloor, repPenalty,
                   repWindow, freqPenalty, seen, gor, ch, gen, fwd, live>>

-----------------------------------------------------------------------------
(* SpecGen: one caller drives wtf_generate and the setters on a loaded engine *)

\* the state a successful wtf_init(path) leaves, with the default settings
Loaded(path) ==
    /\ gModel = LoadFile(path).model
    /\ gTokenizer = LoadFile(path).tokenizer
    /\ gGGUF = LoadFile(path).gguf
    /\ gSampleBuf = newSampleBuffers(LoadFile(path).model.VocabSize)
    /\ live = "loaded"

\* no call in progress, the default sampler settings
Quiet ==
    /\ gMu = Unlocked
    /\ gRNG \in Seeds
    /\ tempFloor = 90 /\ repPenalty = 115 /\ repWindow = 64 /\ freqPenalty = 0
    /\ pc = [t \in Threads |-> "idle"]
    /\ arg = [t \in Threads |-> NoArg]
    /\ seen = [t \in Threads |-> Nil]
    /\ ret = [t \in Threads |-> NoRet]
    /\ gor = [t \in Threads |-> "idle"]
    /\ ch = [t \in Threads |-> <<>>]
    /\ gen = [t \in Threads |-> GenIdle]
    /\ fwd = <<>>

InitGen ==
    /\ \E path \in GoodPaths :
          /\ gModel = LoadFile(path).model
          /\ gTokenizer = LoadFile(path).tokenizer
          /\ gGGUF = LoadFile(path).gguf
          /\ gSampleBuf = newSampleBuffers(LoadFile(path).model.VocabSize)
    /\ gMu = Unlocked
    /\ gRNG \in Seeds
    /\ tempFloor = 90 /\ repPenalty = 115 /\ repWindow = 64 /\ freqPenalty = 0
    /\ pc = [t \in Threads |-> "idle"]
    /\ arg = [t \in Threads |-> NoArg]
    /\ seen = [t \in Threads |-> Nil]
    /\ ret = [t \in Threads |-> NoRet]
    /\ gor = [t \in Threads |-> "idle"]
    /\ ch = [t \in Threads |-> <<>>]
    /\ gen = [t \in Threads |-> GenIdle]
    /\ fwd = <<>>
    /\ live = "loaded"

NextGen ==
    \/ \E w \in Windows, p \in Penalties : wtf_set_rep_penalty(1, p, w)
    \/ \E a \in GenArgs : GenLock(1, a)
    \/ GenCheck(1)
    \/ GenPrefill(1)
    \/ LoopExit(1)
    \/ GraceBreak(1)
    \/ DecodeIter(1)
    \/ GenSend(1)
    \/ GenRecv(1)

SpecGen == InitGen /\ [][NextGen]_vars

-----------------------------------------------------------------------------
(* SpecDrift: one caller generates on an engine whose vocabulary has non-ASCII
   tokens; the output capacity keeps the generations short *)

DriftOutCap == 9

DriftGenArgs ==
    [op : {"generate"}, prompt : {<<97>>}, anchor : {<<>>}, maxTokens : {0, 8},
     maxOutputLen : {DriftOutCap}, temperature : Temps, topP : TopPs]

InitDrift == Loaded(DriftPath) /\ Quiet

NextDrift ==
    \/ \E a \in DriftGenArgs : GenLock(1, a)
    \/ GenCheck(1)
    \/ GenPrefill(1)
    \/ LoopExit(1)
    \/ GraceBreak(1)
    \/ DecodeIter(1)
    \/ GenSend(1)
    \/ GenRecv(1)

SpecDrift == InitDrift /\ [][NextDrift]_vars

-----------------------------------------------------------------------------
(* SpecDet: two callers repeat one and the same wtf_generate call on an engine
   whose model has flat weights, so that the sampler's draw decides each id *)

DetGenArgs ==
    [op : {"generate"}, prompt : {<<97>>}, anchor : {<<>>}, maxTokens : {MaxTokens},
     maxOutputLen : {2, 64}, temperature : Temps, topP : TopPs]

InitDet == Loaded(FlatPath) /\ Quiet

NextDet ==
    \E t \in Threads :
        \/ \E a \in DetGenArgs : GenLock(t, a)
        \/ GenCheck(t)
        \/ GenPrefill(t)
        \/ LoopExit(t)
        \/ GraceBreak(t)
        \/ DecodeIter(t)
        \/ GenSend(t)
        \/ GenRecv(t)

SpecDet == InitDet /\ [][NextDet]_vars

\* some step of thread t's wtf_generate call (caller or goroutine) can be taken:
\* the guard of GenCheck, GenPrefill, a loop step, GenSend or GenRecv holds
\* (in the loop one of LoopExit, GraceBreak and DecodeIter applies, the last
\* one because the sampler has an id to return)
CanStep(t) ==
    \/ AtCheck(t) \/ AtPrefill(t) \/ AtSend(t) \/ AtRecv(t)
    \/ AtLoop(t) /\ gModel # Nil /\ SampleIds(gModel.VocabSize) # {}

-----------------------------------------------------------------------------
(* Spec: two callers use the whole interface on an engine that starts unloaded *)

ApiPaths == {BadPath, <<"rich", 2>>, PlainPath}

\* the window capacity callers set
ApiWindows == {8}

ApiGenArgs ==
    [op : {"generate"}, prompt : {<<97>>}, anchor : {<<>>}, maxTokens : {1},
     maxOutputLen : {3}, temperature : Temps, topP : TopPs]

Init ==
    /\ gModel = Nil /\ gTokenizer = Nil /\ gGGUF = Nil /\ gSampleBuf = Nil
    /\ gMu = Unlocked
    /\ gRNG = 0
    /\ tempFloor = 90 /\ repPenalty = 115 /\ repWindow = 64 /\ freqPenalty = 0
    /\ pc = [t \in Threads |-> "idle"]
    /\ arg = [t \in Threads |-> NoArg]
    /\ seen = [t \in Threads |-> Nil]
    /\ ret = [t \in Threads |-> NoRet]
    /\ gor = [t \in Threads |-> "idle"]
    /\ ch = [t \in Threads |-> <<>>]
    /\ gen = [t \in Threads |-> GenIdle]
    /\ fwd = <<>>
    /\ live = "never"

Next ==
    \E t \in Threads :
        \/ \E path \in ApiPaths : InitLock(t, path)
        \/ InitLoad(t)
        \/ InitRecv(t)
        \/ InitModel(t)
        \/ InitRest(t)
        \/ FreeLock(t)
        \/ FreeModel(t)
        \/ FreeRest(t)
        \/ ResetLock(t)
        \/ ResetBody(t)
        \/ \E f \in TempFloors : wtf_set_temp_floor(t, f)
        \/ \E w \in ApiWindows, p \in Penalties : wtf_set_rep_penalty(t, p, w)
        \/ \E f \in FreqPenalties : wtf_set_freq_penalty(t, f)
        \/ \E a \in ApiGenArgs : GenLock(t, a)
        \/ GenCheck(t)
        \/ GenPrefill(t)
        \/ LoopExit(t)
        \/ GraceBreak(t)
        \/ DecodeIter(t)
        \/ GenSend(t)
        \/ GenRecv(t)
        \/ \E a \in EncArgs : EncCheck(t, a)
        \/ EncUse(t)
        \/ \E a \in DecArgs : DecCheck(t, a)
        \/ DecUse(t)
        \/ \E g \in Getters : GetCheck(t, g)
        \/ GetUse(t)

Spec == Init /\ [][Next]_vars

-----------------------------------------------------------------------------
(* Properties of the interface under two callers *)

\* thread t's wtf_generate goroutine has entered the decode loop
InLoop(t) == gen[t].phase \in {"loop", "send", "done"}

BodyPcs == {"init_wait", "init_model", "init_rest", "free_model", "free_rest",
            "reset_body", "gen_check", "gen_wait"}

\* thread t is between gMu.Lock() and the deferred gMu.Unlock() of wtf_init,
\* wtf_free, wtf_reset or wtf_generate
InBody(t) == pc[t] \in BodyPcs

\* C1: at most one of wtf_init, wtf_free, wtf_reset, wtf_generate executes its body
\* at a time, the one that holds gMu; the goroutine a call starts runs only
\* inside that body and has finished, its result received, when the call returns
C1_MutualExclusion ==
    Running =>
       /\ \A t1, t2 \in Threads : InBody(t1) /\ InBody(t2) => t1 = t2
       /\ \A t \in Threads : InBody(t) => gMu = <<t>>
       /\ \A t \in Threads : gor[t] = "run" => InBody(t)
       /\ \A t \in Threads : ~InBody(t) => gor[t] = "idle" /\ ch[t] = <<>>

\* thread 1 is inside wtf_generate with its goroutine in the decode loop, after
\* thread 2 has completed a wtf_init
C1_Witness ==
    /\ pc[1] = "gen_wait" /\ gor[1] = "run" /\ gen[1].phase = "loop"
    /\ gMu = <<1>>
    /\ ret[2].op = "init" /\ ret[2].val = 0

\* C2: wtf_encode and wtf_decode_token are serialized with wtf_init and wtf_free:
\* between their nil test of gTokenizer and their use of it the tokenizer is
\* neither freed nor replaced
C2_TokenizerStable ==
    \A t \in Threads : pc[t] \in {"enc_use", "dec_use"} => gTokenizer = seen[t]

\* C3: a setter call made while wtf_generate runs does not take effect inside
\* that call: the penalty, the frequency penalty and the window capacity an
\* iteration reads are those the call started its loop with, and the window
\* holds at most the current capacity
C3_SettingsStable ==
    \A t \in Threads :
        InLoop(t) =>
           /\ gen[t].cfg = gen[t].cfg0
           /\ Len(gen[t].recentTokens) <= repWindow

\* C4: while no wtf_init has succeeded since the start or the last wtf_free the
\* globals are nil; a call whose nil test ran in that state returns 0 and never
\* goes on to use a pointer, wtf_generate writes nothing, and wtf_reset calls no
\* Reset
C4_UninitializedReturnsZero ==
    /\ Unloaded => gModel = Nil /\ gTokenizer = Nil
    /\ \A t \in Threads :
          /\ (ret[t].op \in {"generate", "encode", "decode_token", "reset"} \cup Getters
                /\ ret[t].uninit) => ret[t].val = 0
          /\ (ret[t].op = "generate" /\ ret[t].uninit) => ret[t].wrote = 0
          /\ pc[t] \in {"enc_use", "dec_use", "get_use", "gen_wait"} => ~arg[t].uninit
          /\ pc[t] = "panic" => ~arg[t].uninit

\* after a wtf_free, with the engine unloaded, thread 1 has got 0 from
\* wtf_generate and thread 2 has got 0 from wtf_encode
C4_Witness ==
    /\ live = "freed"
    /\ ret[1].op = "generate" /\ ret[1].uninit /\ ret[1].val = 0
    /\ ret[2].op = "encode" /\ ret[2].uninit /\ ret[2].val = 0

\* C5: when a wtf_init call returns an error the engine is unloaded, whatever
\* state it was in before the call
C5_FailedInitUnloads ==
    [][\A t \in Threads :
          (pc[t] = "init_wait" /\ pc'[t] = "idle" /\ ret'[t].op = "init"
             /\ ret'[t].val = -1)
          => gModel' = Nil /\ gTokenizer' = Nil]_vars

-----------------------------------------------------------------------------
(* Properties of the generation loop *)

\* the piece holds the lead byte (>= 0xE0) of a codepoint of 3 or more bytes
HasLongCodepoint(piece) == \E k \in 1..Len(piece) : piece[k] >= 224

\* C11: the iteration that sampled the latest id stopped on the drift guard
\* exactly when more than 5 tokens had been generated and the id's piece has a
\* codepoint of 3 or more UTF-8 bytes; the piece that stops it is not emitted
C11_DriftGuard ==
    \A t \in Threads :
        (InLoop(t) /\ gen[t].sampled # <<>>) =>
           LET piece == DecodeToken(gTokenizer, Last(gen[t].sampled))
           IN /\ gen[t].stop = "cjk" =>
                    /\ gen[t].genCount > 5 /\ HasLongCodepoint(piece)
                    /\ gen[t].output = gen[t].iterOut
              /\ (gen[t].stop = "none" /\ gen[t].genCount - 1 > 5) =>
                    ~HasLongCodepoint(piece)

\* C12: a wtf_generate call on a loaded engine returns having written at most
\* outCap bytes into outBuf, the terminating NUL counted, for every outCap >= 0
C12_WritesWithinCap ==
    \A t \in Threads :
        /\ (ret[t].op = "generate" /\ ~ret[t].uninit) => ret[t].wrote <= ret[t].outCap
        /\ ~(pc[t] = "panic" /\ arg[t].op = "generate")

\* C13: two finished wtf_generate calls with the same prompt, anchor, parameters
\* and sampler settings have sampled the same token sequence (all calls of
\* SpecDet have the same prompt, anchor, temperature and top-p, and no setter runs)
C13_SameTokens ==
    (/\ ret[1].op = "generate" /\ ret[2].op = "generate"
     /\ ret[1].maxTokens = ret[2].maxTokens /\ ret[1].outCap = ret[2].outCap)
    => ret[1].tokens = ret[2].tokens

\* C6: every Forward call of wtf_generate, in prefill and in decode, is at a
\* position p with 0 <= p < SeqLen
C6_ForwardInRange ==
    gModel # Nil => \A k \in 1..Len(fwd) : 0 <= fwd[k] /\ fwd[k] < gModel.SeqLen

\* C7: the decode loop begins at most maxTokens + 32 iterations and the count of
\* generated tokens (in the loop and as returned) is at most maxTokens + 32; the
\* call terminates: while it is in progress one of its steps can always be taken,
\* and every step taken inside the loop begins a new iteration or leaves the loop
C7_IterationBound ==
    /\ [](\A t \in Threads :
            /\ InLoop(t) =>
                  /\ gen[t].iters <= arg[t].maxTok + graceLimit
                  /\ gen[t].genCount <= gen[t].iters
            /\ (ret[t].op = "generate" /\ ret[t].val > 0) =>
                  ret[t].val <= ret[t].maxTokens + graceLimit
            /\ pc[t] \in {"gen_check", "gen_wait"} => CanStep(t))
    /\ [][\A t \in Threads :
            (gen[t].phase = "loop" /\ gen'[t] # gen[t]) =>
                \/ gen'[t].phase = "send"
                \/ gen'[t].phase = "loop" /\ gen'[t].iters = gen[t].iters + 1]_vars

\* a call that ran the full maxTokens + 32 iterations and emitted a token in each
C7_Witness ==
    /\ ret[1].op = "generate" /\ ret[1].val > 0
    /\ ret[1].iters = ret[1].maxTokens + graceLimit
    /\ ret[1].val = ret[1].maxTokens + graceLimit

\* an iteration of thread t's decode loop starts in this state
IterStarts(t) ==
    /\ gen[t].phase = "loop"
    /\ LoopCond(gen[t].i, arg[t].maxTok, Len(gen[t].output), arg[t].maxOut)

EndsSentence(output) == Len(output) > 0 /\ IsStopByte(Last(output))

\* C8: an iteration with index i >= maxTokens that starts with a non-empty output
\* ending in '.', '!', '?' or newline samples no token and ends the loop; an
\* iteration with index i < maxTokens is never ended by the grace break
C8_GraceStep ==
    [][\A t \in Threads :
        (IterStarts(t) /\ gen'[t] # gen[t]) =>
            /\ (gen[t].i >= arg[t].maxTok /\ EndsSentence(gen[t].output)) =>
                  /\ gen'[t].stop = "grace" /\ gen'[t].phase = "send"
                  /\ gen'[t].sampled = gen[t].sampled
                  /\ gen'[t].output = gen[t].output
                  /\ fwd' = fwd
            /\ gen[t].i < arg[t].maxTok => gen'[t].stop # "grace"]_vars

\* a grace break after a sentence end at iteration 0 < maxTokens did not stop
C8_Witness ==
    /\ gen[1].phase = "send" /\ gen[1].stop = "grace"
    /\ arg[1].maxTok >= 1
    /\ Len(gen[1].output) > 1 /\ IsStopByte(gen[1].output[1])

\* the pieces wtf_generate appends for the ids s
Pieces(tk, s) == Concat([k \in 1..Len(s) |-> DecodeToken(tk, s[k])])

\* C9: a sampled EosID ends the loop at once; the EOS token is not decoded into
\* the output, not forwarded, does not advance the position and is not counted:
\* the count (in the loop and as returned) is the number of ids sampled before it
C9_EosStop ==
    \A t \in Threads :
        /\ (InLoop(t) /\ gTokenizer # Nil) =>
              /\ \A k \in 1..(Len(gen[t].sampled) - 1) :
                    gen[t].sampled[k] # gTokenizer.EosID
              /\ (gen[t].sampled # <<>> /\ Last(gen[t].sampled) = gTokenizer.EosID) =>
                    /\ gen[t].stop = "eos" /\ gen[t].phase # "loop"
                    /\ gen[t].genCount = Len(gen[t].sampled) - 1
                    /\ gen[t].pos = gen[t].prefill + Len(gen[t].sampled) - 1
                    /\ Len(fwd) = gen[t].prefill + Len(gen[t].sampled) - 1
                    /\ gen[t].output =
                          Pieces(gTokenizer, SubSeq(gen[t].sampled, 1, Len(gen[t].sampled) - 1))
        /\ (ret[t].op = "generate" /\ ret[t].val > 0 /\ ret[t].stop = "eos") =>
              ret[t].val = ret[t].sampled - 1

\* a call that returned 2 or more tokens and was ended by EOS
C9_Witness ==
    ret[1].op = "generate" /\ ret[1].val >= 2 /\ ret[1].stop = "eos"

\* the last 2*CycleLen sampled ids are a block followed by the same block
RepeatsBlock(s) ==
    /\ Len(s) >= 2 * CycleLen
    /\ \A k \in 0..(CycleLen - 1) : s[Len(s) - k] = s[Len(s) - CycleLen - k]

\* C10: as soon as the 16 most recently sampled ids are an 8-id block followed by
\* the same block, generation stops at that token without emitting or forwarding
\* it, whatever the window capacity; no cycle stop before 16 sampled ids
C10_CycleStops ==
    \A t \in Threads :
        InLoop(t) =>
            /\ RepeatsBlock(gen[t].sampled) =>
                  /\ gen[t].phase # "loop"
                  /\ gen[t].genCount < Len(gen[t].sampled)
            /\ gen[t].stop = "cycle" => Len(gen[t].sampled) >= 2 * CycleLen

\* the same statement for window capacities of at least 16 ids
CycleStopsWideWindow ==
    \A t \in Threads :
        (InLoop(t) /\ gen[t].cfg.w >= 2 * CycleLen) =>
            /\ RepeatsBlock(gen[t].sampled) =>
                  /\ gen[t].phase # "loop"
                  /\ gen[t].genCount < Len(gen[t].sampled)
            /\ gen[t].stop = "cycle" => Len(gen[t].sampled) >= 2 * CycleLen


-----------------------------------------------------------------------------
(* SpecTok: the methods of one Tokenizer, built by NewTokenizer from the
   metadata of a file, applied to short texts and to single ids *)

MaxText == 3

\* 'a', ' ' and the lone continuation byte 0x80 (no valid UTF-8 by itself)
TextBytes == {97, SPACE, 128}

\* "</s>", "a", U+2581, U+2581 "a", "aa", "<s>", "<s>a", " ", "<0x80>", "<0x20>",
\* "<0xEF>", "<0xBF>", "<0xBD>"
MarkVocab ==
    <<<<60, 47, 115, 62>>, <<97>>, SPMark, SPMark \o <<97>>, <<97, 97>>,
      <<60, 115, 62>>, <<60, 115, 62, 97>>, <<SPACE>>, ByteName(128), ByteName(SPACE),
      ByteName(239), ByteName(191), ByteName(189)>>

MarkTypes == <<3, 1, 1, 1, 1, 3, 3, 1, 6, 6, 6, 6, 6>>

\* "</s>", "a", " ", "<s>", "<0x80>": a vocabulary that has the space itself
\* and no U+2581
BareVocab ==
    <<<<60, 47, 115, 62>>, <<97>>, <<SPACE>>, <<60, 115, 62>>, ByteName(128)>>

BareTypes == <<3, 1, 1, 3, 6>>

\* tokenizer.ggml.merges: "a a"
AMerges == <<<<97, SPACE, 97>>>>

TokMeta(vocab, types, scored, model, merges, prefix) ==
    [TokenList |-> vocab,
     TokenScores |-> IF scored THEN [k \in 1..Len(vocab) |-> 0] ELSE <<>>,
     TokenTypes |-> types, VocabSize |-> Len(vocab), BosID |-> 0, EosID |-> 0,
     AddSpacePrefix |-> prefix, TokenModel |-> model, TokenMerges |-> merges]

\* SentencePiece files with and without the space prefix, GPT-2 files, a file
\* with merges and scores under another model string, and one with merges and
\* no scores
TokMetas ==
    {TokMeta(MarkVocab, MarkTypes, TRUE, "llama", <<>>, FALSE),
     TokMeta(MarkVocab, MarkTypes, TRUE, "llama", <<>>, TRUE),
     TokMeta(MarkVocab, MarkTypes, TRUE, "gpt2", AMerges, FALSE),
     TokMeta(MarkVocab, MarkTypes, TRUE, "llama", AMerges, TRUE),
     TokMeta(MarkVocab, MarkTypes, FALSE, "llama", AMerges, TRUE),
     TokMeta(BareVocab, BareTypes, TRUE, "llama", <<>>, FALSE),
     TokMeta(BareVocab, BareTypes, TRUE, "llama", <<>>, TRUE),
     TokMeta(BareVocab, BareTypes, TRUE, "gpt2", AMerges, FALSE)}

\* texts that hold special tokens, and U+2581 itself
MarkedTexts ==
    {SPMark, <<60, 115, 62>>, <<60, 115, 62, 97>>, <<97, 60, 115, 62, 97, 97>>,
     <<60, 47, 115, 62, 60, 115, 62>>, <<60, 115, 97, 60, 115, 62, 60, 47, 115, 62, 97>>}

TokTexts ==
    UNION {[1..k -> TextBytes] : k \in 0..MaxText} \cup MarkedTexts

TokIds == -1..Len(MarkVocab)

InitTok ==
    /\ \E meta \in TokMetas :
          /\ gGGUF = [meta |-> meta]
          /\ gTokenizer = NewTokenizer(meta)
    /\ gModel = Nil /\ gSampleBuf = Nil
    /\ Quiet
    /\ live = "never"

\* ids := t.Encode(text, false)
TokEncode(text) ==
    /\ ret' = [ret EXCEPT ![1] =
          [op |-> "Encode", text |-> text,
           segments |-> IF Len(text) = 0 THEN <<>>
                        ELSE splitOnSpecialTokens(gTokenizer, text),
           ids |-> Encode(gTokenizer, text, FALSE)]]
    /\ UNCHANGED <<gRNG, gModel, gTokenizer, gGGUF, gSampleBuf, gMu, tempFloor, repPenalty,
                   repWindow, freqPenalty, pc, arg, seen, gor, ch, gen, fwd, live>>

\* t.Decode(ids) of the ids the last Encode returned
TokDecode ==
    /\ ret[1].op = "Encode"
    /\ ret' = [ret EXCEPT ![1] =
          [op |-> "Decode", text |-> ret[1].text, ids |-> ret[1].ids,
           out |-> Decode(gTokenizer, ret[1].ids)]]
    /\ UNCHANGED <<gRNG, gModel, gTokenizer, gGGUF, gSampleBuf, gMu, tempFloor, repPenalty,
                   repWindow, freqPenalty, pc, arg, seen, gor, ch, gen, fwd, live>>

\* t.DecodeToken(id)
TokDecodeToken(id) ==
    /\ ret' = [ret EXCEPT ![1] =
          [op |-> "DecodeToken", id |-> id, out |-> DecodeToken(gTokenizer, id)]]
    /\ UNCHANGED <<gRNG, gModel, gTokenizer, gGGUF, gSampleBuf, gMu, tempFloor, repPenalty,
                   repWindow, freqPenalty, pc, arg, seen, gor, ch, gen, fwd, live>>

NextTok ==
    \/ \E text \in TokTexts : TokEncode(text)
    \/ TokDecode
    \/ \E id \in TokIds : TokDecodeToken(id)

SpecTok == InitTok /\ [][NextTok]_vars

-----------------------------------------------------------------------------
(* Properties of the tokenizer *)

\* id's token type is control
IsControl(t, id) ==
    id >= 0 /\ id < Len(t.Types) /\ id < t.VocabSize /\ t.Types[id + 1] = TypeControl

\* no control token's string occurs in s
NoControlToken(t, s) ==
    \A i \in 0..(Len(t.Vocab) - 1) : IsControl(t, i) => Index(s, t.Vocab[i + 1]) < 0

\* every character of s is a token of the vocabulary as it stands
AllVerbatim(t, s) ==
    \A k \in 1..Len(Runes(s)) : TokenToID(t, Runes(s)[k]) >= 0

\* s without one leading space
Unspaced(s) == IF Len(s) > 0 /\ s[1] = SPACE THEN Tail(s) ELSE s

\* out is s, s without its leading space, or s after one more space
SameButLeadingSpace(out, s) == out \in {s, Unspaced(s), <<SPACE>> \o s}

\* C14: Decode(Encode(s, false)) = s, up to one leading space, for every text s
\* that holds no control token and whose characters are all tokens of the
\* vocabulary
C14_RoundTrip ==
    (/\ ret[1].op = "Decode"
     /\ NoControlToken(gTokenizer, ret[1].text)
     /\ AllVerbatim(gTokenizer, ret[1].text))
    => SameButLeadingSpace(ret[1].out, ret[1].text)


\* C15: when the vocabulary holds the token <0xNN> of a byte b, the ids Encode
\* returns for the one-byte string b decode to exactly that one-byte string
C15_ByteFallback ==
    (/\ ret[1].op = "Decode"
     /\ Len(ret[1].text) = 1
     /\ ByteToken(gTokenizer, ret[1].text[1]) >= 0)
    => ret[1].out = ret[1].text


\* C17: the tokenizer NewTokenizer builds runs in GPT-2 mode exactly when the
\* file's tokenizer.ggml.model is "gpt2", whatever its merges and scores are
C17_ModeByModelKey ==
    (gTokenizer # Nil /\ gGGUF # Nil) =>
        (gTokenizer.IsGPT2 <=> gGGUF.meta.TokenModel = "gpt2")


\* the 0-based position in the text at which segment k starts
SegStart(segs, k) == Len(Concat(SubSeq(segs, 1, k - 1)))

\* special token tk occurs in text at the 0-based position p
OccursAt(text, tk, p) ==
    p + Len(tk) <= Len(text) /\ SubSeq(text, p + 1, p + Len(tk)) = tk

\* the segments cut the text at special tokens only: they concatenate to the
\* text, a plain segment is non-empty and follows a match (or starts the text),
\* a match is the earliest occurrence of any special token after the previous
\* match and the longest special token at its position, and no special token
\* occurs after the last match
SplitsAtSpecials(t, text, segs) ==
    /\ Concat(segs) = text
    /\ \A k \in 1..Len(segs) :
          LET start == SegStart(segs, k)
              from == IF k > 1 /\ segs[k - 1] \notin SpecialTokens(t)
                      THEN SegStart(segs, k - 1) ELSE start
          IN IF segs[k] \in SpecialTokens(t)
             THEN \A tk \in SpecialTokens(t) : \A p \in from..start :
                      OccursAt(text, tk, p) => (p = start /\ Len(tk) <= Len(segs[k]))
             ELSE /\ Len(segs[k]) > 0
                  /\ k > 1 => segs[k - 1] \in SpecialTokens(t)
                  /\ k = Len(segs) =>
                        \A tk \in SpecialTokens(t) : \A p \in start..Len(text) :
                            ~OccursAt(text, tk, p)

\* a match gives the one id of that control token, a plain segment the ids of
\* its own encoding
SegmentIds(t, seg, ids) ==
    IF seg \in SpecialTokens(t)
    THEN Len(ids) = 1 /\ IsControl(t, ids[1]) /\ t.Vocab[ids[1] + 1] = seg
    ELSE ids = encodeSentencePiece(t, seg)

\* C18: Encode cuts the text at the earliest special token, the longest one at
\* that position; each match becomes one id, every segment between matches is
\* encoded by itself, and the segments concatenate to the text
C18_SpecialSplit ==
    (ret[1].op = "Encode" /\ Len(ret[1].text) > 0) =>
        LET t == gTokenizer
            segs == ret[1].segments
        IN /\ SplitsAtSpecials(t, ret[1].text, segs)
           /\ \E cut \in [0..Len(segs) -> 0..Len(ret[1].ids)] :
                 /\ cut[0] = 0 /\ cut[Len(segs)] = Len(ret[1].ids)
                 /\ \A k \in 1..Len(segs) :
                       /\ cut[k - 1] <= cut[k]
                       /\ SegmentIds(t, segs[k],
                                     SubSeq(ret[1].ids, cut[k - 1] + 1, cut[k]))

\* Encode has cut a text with plain text before and after a match at whose
\* position a shorter special token starts as well
C18_Witness ==
    /\ ret[1].op = "Encode"
    /\ \E k \in 2..(Len(ret[1].segments) - 1) :
          /\ ret[1].segments[k] \in SpecialTokens(gTokenizer)
          /\ ret[1].segments[k - 1] \notin SpecialTokens(gTokenizer)
          /\ ret[1].segments[k + 1] \notin SpecialTokens(gTokenizer)
          /\ \E tk \in SpecialTokens(gTokenizer) :
                tk # ret[1].segments[k] /\ StartsWith(ret[1].segments[k], tk)


\* C19: a control-type id gives no bytes: DecodeToken returns the empty string
\* for it, and Decode returns nothing for a sequence of control-type ids only
C19_ControlSilent ==
    /\ (ret[1].op = "DecodeToken" /\ IsControl(gTokenizer, ret[1].id))
          => ret[1].out = <<>>
    /\ (/\ ret[1].op = "Decode"
        /\ \A k \in 1..Len(ret[1].ids) : IsControl(gTokenizer, ret[1].ids[k]))
          => ret[1].out = <<>>


\* C20: with the space prefix configured and U+2581 in the vocabulary, a text
\* that itself begins with a space (so that Encode prepends nothing) does not
\* lose that space in Decode(Encode(s)): the result is not s without its
\* leading space
C20_KeepsOwnSpace ==
    (/\ ret[1].op = "Decode"
     /\ gTokenizer.AddSpacePrefix /\ TokenToID(gTokenizer, SPMark) >= 0
     /\ Len(ret[1].text) > 0 /\ ret[1].text[1] = SPACE)
    => ret[1].out # Unspaced(ret[1].text)


-----------------------------------------------------------------------------
(* SpecNucleus: sampleTopP on one logit vector, temperature and top-p value,
   called once for every value gRNG.Float32() can yield *)

SampleVocab == 3

\* gRNG.Float32() yields k / DrawUnits for k in 0..DrawUnits-1
DrawUnits == 64

\* logits in hundredths
LogitLevels == {-150, -100, -50, 0}

NucleusTemps == {50}

\* top-p values wtf_generate hands to sampleTopP (topP < 1.0), in hundredths
NucleusTopPs == {0, 50, 90}

InitNucleus ==
    /\ gModel = Nil /\ gTokenizer = Nil /\ gGGUF = Nil /\ gSampleBuf = Nil
    /\ gMu = Unlocked
    /\ gRNG = 0
    /\ tempFloor = 90 /\ repPenalty = 115 /\ repWindow = 64 /\ freqPenalty = 0
    /\ pc = [t \in Threads |-> "idle"]
    /\ \E logits \in [1..SampleVocab -> LogitLevels], temp \in NucleusTemps,
          topP \in NucleusTopPs :
          arg = [t \in Threads |->
                   IF t = 1 THEN [op |-> "sampleTopP", logits |-> logits,
                                  temp |-> temp, topP |-> topP]
                   ELSE NoArg]
    /\ seen = [t \in Threads |-> Nil]
    /\ ret = [t \in Threads |->
                IF t = 1 THEN [op |-> "sampleTopP", draws |-> 0, ids |-> {}] ELSE NoRet]
    /\ gor = [t \in Threads |-> "idle"]
    /\ ch = [t \in Threads |-> <<>>]
    /\ gen = [t \in Threads |-> GenIdle]
    /\ fwd = <<>>
    /\ live = "never"

\* one more call of sampleTopP, with the next value of gRNG.Float32()
NucleusDraw ==
    /\ ret[1].draws < DrawUnits
    /\ ret' = [ret EXCEPT ![1] =
          [op |-> "sampleTopP", draws |-> ret[1].draws + 1,
           ids |-> ret[1].ids \cup
                   {sampleTopP(arg[1].logits, SampleVocab, arg[1].temp, arg[1].topP,
                               ret[1].draws)}]]
    /\ UNCHANGED <<gRNG, gModel, gTokenizer, gGGUF, gSampleBuf, gMu, tempFloor, repPenalty,
                   repWindow, freqPenalty, pc, arg, seen, gor, ch, gen, fwd, live>>

NextNucleus == NucleusDraw

SpecNucleus == InitNucleus /\ [][NextNucleus]_vars

\* the ids of the smallest non-empty prefix, in the order sampleTopP sorts the
\* ids by probability, whose probabilities sum to at least topP
NucleusIds(logits, vocab, temp, topP) ==
    LET maxVal == SeqMax(logits, vocab)
        w == [i \in 1..vocab |-> ExpW(logits[i] - maxVal, temp)]
        cand == SortDesc(w)
        mass(k) == SumTo([j \in 1..vocab |-> w[cand[j]]], k)
        reach == {k \in 1..vocab : 100 * mass(k) >= topP * mass(vocab)}
        n == CHOOSE k \in reach : \A m \in reach : k <= m
    IN {cand[j] - 1 : j \in 1..n}

\* C16: the ids sampleTopP returns over all draws are exactly the smallest
\* prefix, in descending order of probability, whose probability mass is at
\* least the top-p value
C16_Nucleus ==
    ret[1].op = "sampleTopP" =>
        LET nucleus == NucleusIds(arg[1].logits, SampleVocab, arg[1].temp, arg[1].topP)
        IN /\ ret[1].ids \subseteq nucleus
           /\ ret[1].draws = DrawUnits => ret[1].ids = nucleus

\* every draw has been taken on an input whose nucleus has more than one id
\* and leaves an id of positive probability out
C16_Witness ==
    /\ ret[1].op = "sampleTopP" /\ ret[1].draws = DrawUnits
    /\ Cardinality(ret[1].ids) = 2
    /\ \E i \in 1..SampleVocab :
          /\ (i - 1) \notin ret[1].ids
          /\ arg[1].logits[i] - SeqMax(arg[1].logits, SampleVocab) > -150


-----------------------------------------------------------------------------
(* SpecPenalty: the penalties of one decode iteration, applied to one logit
   vector with one sliding window; the frequency penalty is off (its default) *)

PenVocab == 2

\* the longest window drawn
PenWindow == 3

\* logits in hundredths
PenLogits == {-400, 0, 400}

\* repPenalty in hundredths: 1.0 (off), 1.25, 2.0
PenFactors == {100, 125, 200}

PenWindows == UNION {[1..k -> 0..(PenVocab - 1)] : k \in 0..PenWindow}

\* tokenCounts of a window
RECURSIVE CountsOf(_)
CountsOf(recent) ==
    IF recent = <<>> THEN <<>>
    ELSE CountInc(CountsOf(SubSeq(recent, 1, Len(recent) - 1)), Last(recent))

InitPenalty ==
    /\ gModel = Nil /\ gTokenizer = Nil /\ gGGUF = Nil /\ gSampleBuf = Nil
    /\ gMu = Unlocked
    /\ gRNG = 0
    /\ tempFloor = 90 /\ repWindow = 64 /\ freqPenalty = 0
    /\ repPenalty \in PenFactors
    /\ pc = [t \in Threads |-> "idle"]
    /\ \E logits \in [1..PenVocab -> PenLogits], recent \in PenWindows :
          arg = [t \in Threads |->
                   IF t = 1 THEN [op |-> "penalty", logits |-> logits, recent |-> recent]
                   ELSE NoArg]
    /\ seen = [t \in Threads |-> Nil]
    /\ ret = [t \in Threads |-> NoRet]
    /\ gor = [t \in Threads |-> "idle"]
    /\ ch = [t \in Threads |-> <<>>]
    /\ gen = [t \in Threads |-> GenIdle]
    /\ fwd = <<>>
    /\ live = "never"

\* the two penalty blocks of one iteration on gModel.State.Logits
PenaltyStep ==
    /\ ret[1].op = "none"
    /\ ret' = [ret EXCEPT ![1] =
          [op |-> "penalty",
           logits |-> Penalized(arg[1].logits, arg[1].recent, CountsOf(arg[1].recent),
                                [rp |-> repPenalty, fp |-> freqPenalty])]]
    /\ UNCHANGED <<gRNG, gModel, gTokenizer, gGGUF, gSampleBuf, gMu, tempFloor, repPenalty,
                   repWindow, freqPenalty, pc, arg, seen, gor, ch, gen, fwd, live>>

NextPenalty == PenaltyStep

SpecPenalty == InitPenalty /\ [][NextPenalty]_vars

\* id occurs in the window
InWindow(recent, id) == \E k \in 1..Len(recent) : recent[k] = id

\* logit / rho for a positive logit, logit * rho otherwise
PenalizedOnce(logit, rp) == IF logit > 0 THEN (logit * 100) \div rp ELSE (logit * rp) \div 100

\* C21: with rho > 1, one iteration changes the logit of an id of the window by
\* the factor rho once, however often the id occurs in the window, and leaves
\* the logits of all other ids as they are
C21_PenalizedOnce ==
    (ret[1].op = "penalty" /\ repPenalty > 100) =>
        \A id \in 0..(PenVocab - 1) :
            ret[1].logits[id + 1] =
                IF InWindow(arg[1].recent, id)
                THEN PenalizedOnce(arg[1].logits[id + 1], repPenalty)
                ELSE arg[1].logits[id + 1]


\* the absolute value
Abs(x) == IF x < 0 THEN 0 - x ELSE x

\* the statement that for rho > 1 a penalized logit is never further from zero
\* than the logit it came from
C22_TowardZero ==
    (ret[1].op = "penalty" /\ repPenalty > 100) =>
        \A id \in 0..(PenVocab - 1) :
            InWindow(arg[1].recent, id) =>
                Abs(ret[1].logits[id + 1]) <= Abs(arg[1].logits[id + 1])

\* C22: for rho > 1 the penalty never raises the logit of an id of the window:
\* a positive logit moves toward zero and stays positive or zero, a logit that
\* is not positive moves away from zero or stays
C22_NeverRaises ==
    (ret[1].op = "penalty" /\ repPenalty > 100) =>
        \A id \in 0..(PenVocab - 1) :
            InWindow(arg[1].recent, id) =>
                LET old == arg[1].logits[id + 1]
                    new == ret[1].logits[id + 1]
                IN /\ new <= old
                   /\ old > 0 => new >= 0
                   /\ old <= 0 => Abs(new) >= Abs(old)

\* the penalty has lowered a negative logit and a positive logit
C22_Witness ==
    /\ ret[1].op = "penalty" /\ repPenalty > 100
    /\ \E id \in 0..(PenVocab - 1) :
          /\ InWindow(arg[1].recent, id)
          /\ arg[1].logits[id + 1] < 0
          /\ ret[1].logits[id + 1] < arg[1].logits[id + 1]
    /\ \E id \in 0..(PenVocab - 1) :
          /\ InWindow(arg[1].recent, id)
          /\ arg[1].logits[id + 1] > 0
          /\ ret[1].logits[id + 1] < arg[1].logits[id + 1]


-----------------------------------------------------------------------------
(* SpecSample: one call of a sampling kernel on a logit vector that may hold
   NaN and -Inf entries *)

FloatLevels == {NaN, NegInf, -50, 0}

SampleArgs ==
    [op : {"sample"}, kernel : {"sampleTopP", "sampleTopK"},
     logits : [1..SampleVocab -> FloatLevels], temp : {0, 50}, topP : {90},
     topK : {2, 50}]

\* values of gRNG.Float32(), in 64ths
SampleDraws == {0, 32, 63}

InitSample ==
    /\ gModel = Nil /\ gTokenizer = Nil /\ gGGUF = Nil /\ gSampleBuf = Nil
    /\ gMu = Unlocked
    /\ gRNG = 0
    /\ tempFloor = 90 /\ repPenalty = 115 /\ repWindow = 64 /\ freqPenalty = 0
    /\ pc = [t \in Threads |-> "idle"]
    /\ \E a \in SampleArgs : arg = [t \in Threads |-> IF t = 1 THEN a ELSE NoArg]
    /\ seen = [t \in Threads |-> Nil]
    /\ ret = [t \in Threads |-> NoRet]
    /\ gor = [t \in Threads |-> "idle"]
    /\ ch = [t \in Threads |-> <<>>]
    /\ gen = [t \in Threads |-> GenIdle]
    /\ fwd = <<>>
    /\ live = "never"

\* next = sampleTopP(...) or sampleTopK(...), as wtf_generate calls them
SampleCall(draw) ==
    /\ ret[1].op = "none"
    /\ ret' = [ret EXCEPT ![1] =
          [op |-> "sample",
           id |-> IF arg[1].kernel = "sampleTopP"
                  THEN sampleTopP(arg[1].logits, SampleVocab, arg[1].temp,
                                  arg[1].topP, draw)
                  ELSE sampleTopK(arg[1].logits, SampleVocab, arg[1].temp,
                                  arg[1].topK, draw)]]
    /\ UNCHANGED <<gRNG, gModel, gTokenizer, gGGUF, gSampleBuf, gMu, tempFloor, repPenalty,
                   repWindow, freqPenalty, pc, arg, seen, gor, ch, gen, fwd, live>>

NextSample == \E draw \in SampleDraws : SampleCall(draw)

SpecSample == InitSample /\ [][NextSample]_vars

\* C23: for every logit vector, with NaN or -Inf entries or made of them only,
\* the kernel returns an id of 0..V-1, and never an id whose logit is NaN
C23_SamplesValidId ==
    ret[1].op = "sample" =>
        /\ ret[1].id \in 0..(SampleVocab - 1)
        /\ arg[1].logits[ret[1].id + 1] # NaN


-----------------------------------------------------------------------------
(* SpecEncode: Tokenizer.Encode step by step: one action per round of the
   special-token scan, per segment and per pass of the merge loop *)

\* tokenizer.ggml.merges with one merge listed three times
DupMerges == <<<<97, SPACE, 97>>, <<97, SPACE, 97>>, <<97, SPACE, 97>>>>

\* tokenizer.ggml.merges: "a a" before " a"
TwoMerges == <<<<97, SPACE, 97>>, <<SPACE, SPACE, 97>>>>

\* the files of TokMetas, a SentencePiece file without scores, one whose scores
\* end before the vocabulary does, a GPT-2 file with a repeated merge, a
\* SentencePiece file whose scores rise with the id, and a GPT-2 file with two
\* merges
EncMetas ==
    TokMetas \cup
    {TokMeta(MarkVocab, MarkTypes, FALSE, "llama", <<>>, TRUE),
     [TokMeta(MarkVocab, MarkTypes, TRUE, "llama", <<>>, TRUE)
         EXCEPT !.TokenScores = <<0, 0, 0, 0>>],
     TokMeta(MarkVocab, MarkTypes, TRUE, "gpt2", DupMerges, FALSE),
     [TokMeta(MarkVocab, MarkTypes, TRUE, "llama", <<>>, TRUE)
         EXCEPT !.TokenScores = [k \in 1..Len(MarkVocab) |-> k]],
     TokMeta(MarkVocab, MarkTypes, TRUE, "gpt2", TwoMerges, FALSE)}

InitEncode ==
    /\ \E meta \in EncMetas :
          /\ gGGUF = [meta |-> meta]
          /\ gTokenizer = NewTokenizer(meta)
    /\ gModel = Nil /\ gSampleBuf = Nil
    /\ gMu = Unlocked
    /\ gRNG = 0
    /\ tempFloor = 90 /\ repPenalty = 115 /\ repWindow = 64 /\ freqPenalty = 0
    /\ pc = [t \in Threads |-> "idle"]
    /\ arg = [t \in Threads |-> NoArg]
    /\ seen = [t \in Threads |-> Nil]
    /\ ret = [t \in Threads |-> NoRet]
    /\ gor = [t \in Threads |-> "idle"]
    /\ ch = [t \in Threads |-> <<>>]
    /\ gen = [t \in Threads |-> GenIdle]
    /\ fwd = <<>>
    /\ live = "never"

\* remaining = remaining[bestPos+bestLen:]
SplitRestKeepsToken(remaining, best) == Drop(remaining, Index(remaining, best))

SplitRest(remaining, best) == Drop(remaining, Index(remaining, best) + Len(best))

\* the symbols bpeMerge starts from for one segment
InitialSymbols(t, text) ==
    IF t.IsGPT2
    THEN [k \in 1..Len(text) |->
            IF TokenToID(t, <<text[k]>>) >= 0 THEN <<text[k]>> ELSE ByteName(text[k])]
    ELSE LET pre == IF t.AddSpacePrefix /\ Len(text) > 0 /\ text[1] # SPACE
                    THEN <<SPACE>> \o text ELSE text
         IN initialTokenizeSP(t, ReplaceAll(pre, <<SPACE>>, SPMark))

\* the pair one pass of the merge loop picks: its index, -1 when the loop ends
BestPair(t, symbols) ==
    IF t.IsGPT2
    THEN RankScan(t, symbols, 0, [idx |-> -1, rank |-> MergeCount(t) + 1]).idx
    ELSE ScoreScan(t, symbols, 0, [idx |-> -1, score |-> NegInfScore]).idx

\* Encode(text, false) up to the call of splitOnSpecialTokens
EncStart(text) ==
    /\ ret[1].op = "none"
    /\ ret' = [ret EXCEPT ![1] =
          [op |-> "Encode", text |-> text, remaining |-> text, segments |-> <<>>,
           k |-> 0, symbols |-> <<>>, before |-> <<>>, passes |-> 0, ids |-> <<>>,
           at |-> IF Len(text) = 0 THEN "done"
                  ELSE IF SpecialTokens(gTokenizer) = {} THEN "segment" ELSE "split"]]
       \* without special tokens the one segment is the text
    /\ UNCHANGED <<gRNG, gModel, gTokenizer, gGGUF, gSampleBuf, gMu, tempFloor, repPenalty,
                   repWindow, freqPenalty, pc, arg, seen, gor, ch, gen, fwd, live>>

\* one round of the loop of splitOnSpecialTokens
SplitStep ==
    /\ ret[1].op = "Encode" /\ ret[1].at = "split"
    /\ LET e == ret[1]
           best == BestSpecial(gTokenizer, e.remaining)
           bestPos == Index(e.remaining, best)
           rest == IF best = <<>> THEN <<>> ELSE SplitRest(e.remaining, best)
           segs == IF best = <<>> THEN e.segments \o <<e.remaining>>
                   ELSE e.segments
                        \o (IF bestPos > 0 THEN <<Prefix(e.remaining, bestPos)>> ELSE <<>>)
                        \o <<best>>
       IN ret' = [ret EXCEPT ![1] =
             [e EXCEPT !.remaining = rest, !.segments = segs,
                       !.at = IF Len(rest) > 0 THEN "split" ELSE "segment"]]
    /\ UNCHANGED <<gRNG, gModel, gTokenizer, gGGUF, gSampleBuf, gMu, tempFloor, repPenalty,
                   repWindow, freqPenalty, pc, arg, seen, gor, ch, gen, fwd, live>>

\* the next segment: the id of a special token, or the initial symbols of a
\* plain segment; the return after the last segment
SegmentStep ==
    /\ ret[1].op = "Encode" /\ ret[1].at = "segment"
    /\ LET e == ret[1]
           segs == IF SpecialTokens(gTokenizer) = {} THEN <<e.text>> ELSE e.segments
       IN ret' = [ret EXCEPT ![1] =
             IF e.k >= Len(segs) THEN [e EXCEPT !.at = "done", !.segments = segs]
             ELSE IF segs[e.k + 1] \in SpecialTokens(gTokenizer)
             THEN [e EXCEPT !.segments = segs, !.k = e.k + 1,
                            !.ids = e.ids \o <<SpecialID(gTokenizer, segs[e.k + 1])>>]
             ELSE [e EXCEPT !.segments = segs, !.at = "merge",
                            !.symbols = InitialSymbols(gTokenizer, segs[e.k + 1])]]
    /\ UNCHANGED <<gRNG, gModel, gTokenizer, gGGUF, gSampleBuf, gMu, tempFloor, repPenalty,
                   repWindow, freqPenalty, pc, arg, seen, gor, ch, gen, fwd, live>>

\* one pass of the loop of bpeMergeScores / bpeMergeGPT2: the merge of the best
\* pair, or the break and symbolsToIDs when no pair is found
MergeStep ==
    /\ ret[1].op = "Encode" /\ ret[1].at = "merge"
    /\ LET e == ret[1]
           bestIdx == BestPair(gTokenizer, e.symbols)
       IN ret' = [ret EXCEPT ![1] =
             IF bestIdx < 0
             THEN [e EXCEPT !.at = "segment", !.k = e.k + 1,
                            !.ids = e.ids \o symbolsToIDs(gTokenizer, e.symbols)]
             ELSE [e EXCEPT !.symbols = MergeAt(e.symbols, bestIdx),
                            !.before = e.symbols, !.passes = e.passes + 1]]
    /\ UNCHANGED <<gRNG, gModel, gTokenizer, gGGUF, gSampleBuf, gMu, tempFloor, repPenalty,
                   repWindow, freqPenalty, pc, arg, seen, gor, ch, gen, fwd, live>>

NextEncode ==
    \/ \E text \in TokTexts : EncStart(text)
    \/ SplitStep
    \/ SegmentStep
    \/ MergeStep

SpecEncode == InitEncode /\ [][NextEncode]_vars

\* a step of Encode moves on: a round of the scan shortens the remaining text,
\* a merge shortens the symbol list by one, a segment step starts the merge
\* loop of the next segment, passes it or returns
EncodeAdvances ==
    (ret[1].op = "Encode" /\ ret'[1] # ret[1]) =>
        \/ /\ ret[1].at = "split"
           /\ Len(ret'[1].remaining) < Len(ret[1].remaining)
           /\ Len(ret'[1].segments) > Len(ret[1].segments)
        \/ /\ ret[1].at = "merge" /\ ret'[1].at = "merge"
           /\ Len(ret'[1].symbols) = Len(ret[1].symbols) - 1
        \/ /\ ret[1].at = "merge" /\ ret'[1].at = "segment" /\ ret'[1].k = ret[1].k + 1
        \/ /\ ret[1].at = "segment" /\ ret'[1].at = "segment" /\ ret'[1].k = ret[1].k + 1
        \/ /\ ret[1].at = "segment" /\ ret'[1].at = "merge" /\ ret'[1].k = ret[1].k
        \/ /\ ret[1].at = "segment" /\ ret'[1].at = "done" /\ ret[1].k = Len(ret'[1].segments)

\* where Encode stands it can take its next step, and what it returns is the
\* list of ids of Encode(text, false), each an index of the vocabulary
EncodeNeverStuck ==
    ret[1].op = "Encode" =>
        /\ ret[1].at = "split" => Len(ret[1].remaining) > 0
        /\ ret[1].at \in {"split", "segment", "merge", "done"}
        /\ ret[1].k <= Len(ret[1].text)
        /\ ret[1].at = "done" =>
              /\ ret[1].ids = Encode(gTokenizer, ret[1].text, FALSE)
              /\ \A i \in 1..Len(ret[1].ids) :
                    ret[1].ids[i] \in 0..(Len(gTokenizer.Vocab) - 1)

-----------------------------------------------------------------------------
(* SpecAlloc: the backing arrays of the decode loop of wtf_generate: the slice
   recentTokens with its length and capacity, and the buffer DecodeToken builds
   the piece in. append allocates a new array when the capacity of its slice
   does not hold the added values; s[1:] gives up one slot of capacity *)

\* the decode iterations followed
AllocIters == 4

\* window capacities set through wtf_set_rep_penalty
AllocWindows == 0..2

\* ids sampled: "</s>" (EOS), "a", and "aa" or "<0x80>"
AllocIds == {0, 1, 4}

InitAlloc ==
    /\ \E meta \in TokMetas :
          /\ gGGUF = [meta |-> meta]
          /\ gTokenizer = NewTokenizer(meta)
    /\ gModel = Nil /\ gSampleBuf = Nil
    /\ gMu = Unlocked
    /\ gRNG = 0
    /\ tempFloor = 90 /\ repPenalty = 115 /\ freqPenalty = 0
    /\ repWindow \in AllocWindows
    /\ pc = [t \in Threads |-> "idle"]
    /\ arg = [t \in Threads |-> NoArg]
    /\ seen = [t \in Threads |-> Nil]
    \* recentTokens := make([]int, 0, repWindow)
    /\ ret = [t \in Threads |->
                IF t = 1 THEN [op |-> "decode", at |-> "loop", recentTokens |-> <<>>,
                               cap |-> repWindow, iters |-> 0, heap |-> {}]
                ELSE NoRet]
    /\ gor = [t \in Threads |-> "idle"]
    /\ ch = [t \in Threads |-> <<>>]
    /\ gen = [t \in Threads |-> GenIdle]
    /\ fwd = <<>>
    /\ live = "never"

\* gpt2DecodePiece appends the bytes of a piece to a nil slice
PieceAllocates(t, id) ==
    /\ id >= 0 /\ id < t.VocabSize
    /\ ~IsByteName(t.Vocab[id + 1])
    /\ t.IsGPT2
    /\ Len(t.Vocab[id + 1]) > 0

\* the capacities append may give the new array of a slice of n values
GrownCaps(n) == n..(2 * n)

\* one decode iteration that samples next: the window update, the stop tests
\* and DecodeToken; heap names what the iteration allocated
DecodeAlloc(next, newcap) ==
    /\ ret[1].op = "decode" /\ ret[1].at = "loop" /\ ret[1].iters < AllocIters
    /\ LET e == ret[1]
           n == Len(e.recentTokens)
           grows == n + 1 > e.cap
           over == n + 1 > repWindow
           recent == WindowPush(e.recentTokens, next, repWindow)
           stops == IsEos(gTokenizer, next) \/ IsCycle(recent)
       IN /\ newcap \in IF grows THEN GrownCaps(n + 1) ELSE {e.cap}
          /\ ret' = [ret EXCEPT ![1] =
                [op |-> "decode",
                 at |-> IF stops THEN "done" ELSE "loop",
                 recentTokens |-> recent,
                 cap |-> IF over THEN newcap - 1 ELSE newcap,
                 iters |-> e.iters + 1,
                 heap |-> (IF grows THEN {"recentTokens"} ELSE {})
                          \cup (IF ~stops /\ PieceAllocates(gTokenizer, next)
                                THEN {"piece"} ELSE {})]]
    /\ UNCHANGED <<gRNG, gModel, gTokenizer, gGGUF, gSampleBuf, gMu, tempFloor, repPenalty,
                   repWindow, freqPenalty, pc, arg, seen, gor, ch, gen, fwd, live>>

NextAlloc ==
    \E next \in AllocIds, newcap \in 0..(2 * (AllocIters + 1)) : DecodeAlloc(next, newcap)

SpecAlloc == InitAlloc /\ [][NextAlloc]_vars

\* C25: no decode iteration of wtf_generate allocates: the window update and
\* the decoding of the token reuse the buffers made before the loop
C25_NoAllocation ==
    ret[1].op = "decode" => ret[1].heap = {}

-----------------------------------------------------------------------------
(* The positions wtf_generate forwards *)

\* C26: the Forward calls since the last Reset are at positions 0, 1, 2, ... in
\* this order, without gap or repeat: every wtf_generate call resets the model
\* before its first Forward and prefill and decode count one position up per call
C26_PositionsInOrder ==
    \A k \in 1..Len(fwd) : fwd[k] = k - 1

\* a call has forwarded the tokens of its prompt and then tokens it decoded
C26_Witness ==
    /\ gen[1].phase = "loop"
    /\ gen[1].prefill >= 2 /\ gen[1].genCount >= 2
    /\ Len(fwd) = gen[1].prefill + gen[1].genCount

-----------------------------------------------------------------------------
(* The sliding window of wtf_generate *)

\* the locals g of a call hold a window of at most w ids, the most recently
\* sampled ones in order, and the count of each id in the window
WindowHolds(g, w) ==
    LET n == Len(g.sampled)
        m == Len(g.recentTokens)
    IN /\ m <= w /\ m <= n
       /\ g.recentTokens = SubSeq(g.sampled, n - m + 1, n)
       /\ g.tokenCounts = CountsOf(g.recentTokens)
       /\ \A id \in DOMAIN g.tokenCounts : g.tokenCounts[id] > 0

\* window capacities another caller sets while a generation runs
RaceWindows == {1, 8}

RaceGenArgs ==
    [op : {"generate"}, prompt : {<<97>>}, anchor : {<<>>}, maxTokens : {MaxTokens},
     maxOutputLen : {64}, temperature : Temps, topP : TopPs]

InitRace == Loaded(PlainPath) /\ Quiet

\* one caller generates while a second one calls wtf_set_rep_penalty, which
\* takes no lock
NextRace ==
    \/ \E a \in RaceGenArgs : GenLock(1, a)
    \/ GenCheck(1)
    \/ GenPrefill(1)
    \/ LoopExit(1)
    \/ GraceBreak(1)
    \/ DecodeIter(1)
    \/ GenSend(1)
    \/ GenRecv(1)
    \/ \E w \in RaceWindows : wtf_set_rep_penalty(2, repPenalty, w)

SpecRace == InitRace /\ [][NextRace]_vars

\* C27: window and count map are empty when the loop of a call starts, and
\* after every window update under a capacity W >= 0 the window holds at most W
\* ids, the most recently sampled ones in order, with their exact counts and no
\* count <= 0
C27_WindowInvariant ==
    \A t \in Threads :
        gen[t].phase \in {"loop", "send", "done"} =>
            /\ Len(gen[t].sampled) = 0 =>
                  gen[t].recentTokens = <<>> /\ gen[t].tokenCounts = <<>>
            /\ (Len(gen[t].sampled) > 0 /\ gen[t].cfg.w >= 0) =>
                  WindowHolds(gen[t], gen[t].cfg.w)

-----------------------------------------------------------------------------
(* SpecTies: sampleTopP on a vocabulary longer than the slices sort.Slice
   sorts by insertion, with logits that give many ids the same probability *)

TieVocab == 13

\* sort.Slice sorts a slice of at most this length by insertion, which keeps
\* equal elements in place; on a longer slice it swaps elements over a distance
\* and guarantees no order among equal ones
InsertionSortLen == 12

\* one id above the others, or all ids alike; logits in hundredths
TieLogits ==
    {[i \in 1..TieVocab |-> IF i = h THEN 0 ELSE -50] : h \in 0..TieVocab}

TieTopPs == {50, 90}

\* the ids sampleTopP may return with the value draw of gRNG.Float32(): the
\* place in the sorted slice is the one sampleTopP finds, and any id whose
\* probability equals that of this place may stand there
TieIds(logits, vocab, temp, topP, draw) ==
    LET id == sampleTopP(logits, vocab, temp, topP, draw)
        w == [i \in 1..vocab |-> ExpF(logits[i], MaxScan(logits, vocab, 1, logits[1]), temp)]
    IN IF temp <= 0 \/ vocab <= InsertionSortLen THEN {id}
       ELSE {i - 1 : i \in {j \in 1..vocab : w[j] = w[id + 1]}}

InitTies ==
    /\ gModel = Nil /\ gTokenizer = Nil /\ gGGUF = Nil /\ gSampleBuf = Nil
    /\ gMu = Unlocked
    /\ gRNG = 0
    /\ tempFloor = 90 /\ repPenalty = 115 /\ repWindow = 64 /\ freqPenalty = 0
    /\ pc = [t \in Threads |-> "idle"]
    /\ \E logits \in TieLogits, topP \in TieTopPs :
          arg = [t \in Threads |->
                   IF t = 1 THEN [op |-> "sampleTopP", logits |-> logits,
                                  temp |-> 50, topP |-> topP]
                   ELSE NoArg]
    /\ seen = [t \in Threads |-> Nil]
    /\ ret = [t \in Threads |-> NoRet]
    /\ gor = [t \in Threads |-> "idle"]
    /\ ch = [t \in Threads |-> <<>>]
    /\ gen = [t \in Threads |-> GenIdle]
    /\ fwd = <<>>
    /\ live = "never"

\* one call of sampleTopP
TieCall(draw) ==
    /\ ret[1].op = "none"
    /\ \E id \in TieIds(arg[1].logits, TieVocab, arg[1].temp, arg[1].topP, draw) :
          ret' = [ret EXCEPT ![1] = [op |-> "sampleTopP", draw |-> draw, id |-> id]]
    /\ UNCHANGED <<gRNG, gModel, gTokenizer, gGGUF, gSampleBuf, gMu, tempFloor, repPenalty,
                   repWindow, freqPenalty, pc, arg, seen, gor, ch, gen, fwd, live>>

NextTies == \E draw \in SampleDraws : TieCall(draw)

SpecTies == InitTies /\ [][NextTies]_vars

\* C28: sampleTopP orders ids of equal probability by ascending id, so the id
\* it returns is the one that the logits, the temperature, top-p and the draw
\* determine under this order
C28_TiesByAscendingId ==
    ret[1].op = "sampleTopP" =>
        ret[1].id = sampleTopP(arg[1].logits, TieVocab, arg[1].temp, arg[1].topP,
                               ret[1].draw)

-----------------------------------------------------------------------------
(* The merge loop of Encode *)

\* pair i (0-based) of symbols s can be merged: its space-joined form has a
\* rank in the merge table (GPT-2), its concatenation is a token with a score
\* (SentencePiece)
Mergeable(t, s, i) ==
    IF t.IsGPT2 THEN MergeRank(t, s[i + 1] \o <<SPACE>> \o s[i + 2]) >= 0
    ELSE LET id == TokenToID(t, s[i + 1] \o s[i + 2])
         IN id >= 0 /\ id < Len(t.Scores)

\* how good pair i is: its score, or its rank counted down
Worth(t, s, i) ==
    IF t.IsGPT2 THEN 0 - MergeRank(t, s[i + 1] \o <<SPACE>> \o s[i + 2])
    ELSE t.Scores[TokenToID(t, s[i + 1] \o s[i + 2]) + 1]

\* pair i is the best of the mergeable pairs of s, the first among equals
BestOf(t, s, i) ==
    /\ i \in 0..(Len(s) - 2) /\ Mergeable(t, s, i)
    /\ \A j \in 0..(Len(s) - 2) :
          Mergeable(t, s, j) =>
             \/ Worth(t, s, i) > Worth(t, s, j)
             \/ (Worth(t, s, i) = Worth(t, s, j) /\ i <= j)

\* s2 is s with pair i replaced by its concatenation and nothing else changed
OnlyPairMerged(s, s2, i) ==
    /\ Len(s2) = Len(s) - 1
    /\ \A k \in 1..Len(s2) :
          s2[k] = IF k < i + 1 THEN s[k]
                  ELSE IF k = i + 1 THEN s[i + 1] \o s[i + 2]
                  ELSE s[k + 1]

MergesBest ==
    (ret[1].op = "Encode" /\ ret[1].at = "merge" /\ ret'[1].at = "merge"
     /\ ret'[1] # ret[1]) =>
        \E i \in 0..(Len(ret[1].symbols) - 2) :
            /\ BestOf(gTokenizer, ret[1].symbols, i)
            /\ OnlyPairMerged(ret[1].symbols, ret'[1].symbols, i)

\* C29: every pass of the merge loop that merges replaces the best mergeable
\* pair (highest score in SentencePiece mode, lowest rank in GPT-2 mode, the
\* smallest index among equals) by its concatenation and leaves every other
\* symbol in place
C29_MergesBestPair == [][MergesBest]_vars

\* a pass has merged a pair that was not the first mergeable one, because a
\* later pair was better
C29_Witness ==
    /\ ret[1].op = "Encode" /\ ret[1].at = "merge" /\ ret[1].passes > 0
    /\ Len(ret[1].symbols) = Len(ret[1].before) - 1
    /\ Mergeable(gTokenizer, ret[1].before, 0)
    /\ ~BestOf(gTokenizer, ret[1].before, 0)
    /\ ret[1].symbols[1] = ret[1].before[1]

\* pair i (0-based) of symbols s is one the vocabulary or the merge list
\* holds: its concatenation is a token (SentencePiece), its space-joined form is
\* an entry of the merge list (GPT-2)
Known(t, s, i) ==
    IF t.IsGPT2 THEN \E m \in 1..Len(t.Merges) : t.Merges[m] = s[i + 1] \o <<SPACE>> \o s[i + 2]
    ELSE TokenToID(t, s[i + 1] \o s[i + 2]) >= 0

StopsAtFixpoint ==
    (ret[1].op = "Encode" /\ ret[1].at = "merge" /\ ret'[1].at = "segment") =>
        \A i \in 0..(Len(ret'[1].symbols) - 2) : ~Known(gTokenizer, ret'[1].symbols, i)

\* C30: when the merge loop returns, no adjacent pair of the symbols it returns
\* is a token of the vocabulary (SentencePiece) or an entry of the merge list
\* (GPT-2), whatever the vocabulary, the scores and the merge list are
C30_Fixpoint == [][StopsAtFixpoint]_vars

=============================================================================
